---- MODULE Spec2Model ----
(***************************************************************************)
(* Model of OpenPrompt's core: the .gitignore matcher, the directory scan,  *)
(* the tree builder and the token counts of                                *)
(* internal/fileutils/fileutils.go, the lazy expansion and the selection   *)
(* of the file tree and generateAndCopy of internal/ui/filetree.go, and    *)
(* the concurrent XML generator of internal/prompt/generator.go.           *)
(*                                                                         *)
(* Strings are sequences of one-character strings, so that prefixes,       *)
(* suffixes, segments and globs are computed character by character.       *)
(***************************************************************************)
EXTENDS Integers, Sequences, FiniteSets, TLC

(***************************************************************************)
(* Bounds of the model.                                                    *)
(***************************************************************************)
MaxPatLen == 2      \* longest ignore line enumerated exhaustively
MaxAffixLen == 3    \* longest <prefix> of <prefix>/** and <suffix> of **/<suffix>
MaxPathLen == 5     \* longest candidate relative path, in characters
MaxRules == 2       \* longest rule list drawn from PoolLines
MaxFiles == 3       \* most entries in a selection handed to GenerateXML
MaxCPU == 1         \* largest runtime.NumCPU() considered
MaxNodes == 3       \* most entries on disk below the scanned directory
MaxIgnoreLines == 1 \* most rule lines in the .gitignore of a scanned disk
MaxGlobs == 1       \* most explicit ignore globs in the filters
MaxEntries == 4     \* most entries in a flat list handed to BuildFileTree
MaxExpand == 2      \* most directories loadChildren attaches children to
MaxCount == 1100    \* largest token count formatted without a gap below it
MaxRuns == 2        \* most presses of the generate-and-copy button
MaxClicks == 2      \* most changes of a check box by the user
MaxTasks == 3       \* most goroutines the check boxes start

PatChars == {"a", "/", "*", "?", "!", "[", "]"}
NameChars == {"a", "b"}

(***************************************************************************)
(* package strings                                                         *)
(***************************************************************************)
HasPrefix(s, prefix) ==
    /\ Len(prefix) <= Len(s)
    /\ SubSeq(s, 1, Len(prefix)) = prefix

HasSuffix(s, suffix) ==
    /\ Len(suffix) <= Len(s)
    /\ SubSeq(s, Len(s) - Len(suffix) + 1, Len(s)) = suffix

Contains(s, substr) ==
    \E i \in 1..(Len(s) - Len(substr) + 1) :
        SubSeq(s, i, i + Len(substr) - 1) = substr

TrimSuffix(s, suffix) ==
    IF HasSuffix(s, suffix) THEN SubSeq(s, 1, Len(s) - Len(suffix)) ELSE s

\* strings.Split(s, "/"): the segments between separators, in order.
RECURSIVE SplitFrom(_, _, _)
SplitFrom(s, i, cur) ==
    IF i > Len(s) THEN <<cur>>
    ELSE IF s[i] = "/" THEN <<cur>> \o SplitFrom(s, i + 1, <<>>)
    ELSE SplitFrom(s, i + 1, Append(cur, s[i]))

Split(s) == SplitFrom(s, 1, <<>>)

(***************************************************************************)
(* package path/filepath (Unix build: Separator is '/')                    *)
(***************************************************************************)
Separator == "/"

ToSlash(path) ==
    [i \in DOMAIN path |-> IF path[i] = Separator THEN "/" ELSE path[i]]

RECURSIVE StripTrailingSep(_)
StripTrailingSep(path) ==
    IF Len(path) > 0 /\ path[Len(path)] = Separator
    THEN StripTrailingSep(SubSeq(path, 1, Len(path) - 1))
    ELSE path

\* filepath.Base: the last element of path; "." for the empty path and
\* "/" for a path of separators only.
Base(path) ==
    IF path = <<>> THEN <<".">>
    ELSE LET p == StripTrailingSep(path)
             seps == {i \in DOMAIN p : p[i] = Separator}
             last == IF seps = {} THEN 0
                     ELSE CHOOSE i \in seps : \A k \in seps : k <= i
         IN IF p = <<>> THEN <<Separator>>
            ELSE SubSeq(p, last + 1, Len(p))

\* Index of the ']' closing the character class whose members start at k,
\* or 0 when the class is malformed (ErrBadPattern): a class needs at least
\* one member, and a member may not be the last character of the pattern.
RECURSIVE ClassClose(_, _, _)
ClassClose(p, k, nrange) ==
    IF k > Len(p) THEN 0
    ELSE IF p[k] = "]" THEN (IF nrange > 0 THEN k ELSE 0)
    ELSE IF k + 1 > Len(p) THEN 0
    ELSE ClassClose(p, k + 1, nrange + 1)

\* filepath.Match on pattern[i..] and name[j..]: '*' matches any run of
\* non-separator characters, '?' one non-separator character, '[...]' one
\* character of the class, anything else itself.  A malformed pattern
\* yields (false, ErrBadPattern), i.e. no match.
RECURSIVE MatchFrom(_, _, _, _)
MatchFrom(p, i, s, j) ==
    IF i > Len(p) THEN j > Len(s)
    ELSE IF p[i] = "*" THEN
        \/ MatchFrom(p, i + 1, s, j)
        \/ /\ j <= Len(s)
           /\ s[j] # Separator
           /\ MatchFrom(p, i, s, j + 1)
    ELSE IF p[i] = "?" THEN
        /\ j <= Len(s)
        /\ s[j] # Separator
        /\ MatchFrom(p, i + 1, s, j + 1)
    ELSE IF p[i] = "[" THEN
        LET c == ClassClose(p, i + 1, 0) IN
        /\ c # 0
        /\ j <= Len(s)
        /\ s[j] \in {p[k] : k \in (i + 1)..(c - 1)}
        /\ MatchFrom(p, c + 1, s, j + 1)
    ELSE
        /\ j <= Len(s)
        /\ s[j] = p[i]
        /\ MatchFrom(p, i + 1, s, j + 1)

Match(pattern, name) == MatchFrom(pattern, 1, name, 1)

(***************************************************************************)
(* gitignorePatterns.shouldIgnore                                          *)
(***************************************************************************)
Negate(line) == HasPrefix(line, <<"!">>)

StripNegation(line) == IF Negate(line) THEN Tail(line) ELSE line

DirOnly(line) == HasSuffix(StripNegation(line), <<"/">>)

\* The pattern text the rule is matched with: the line without its leading
\* '!' and without its trailing '/'.
PatternOf(line) ==
    LET p == StripNegation(line)
    IN IF DirOnly(line) THEN SubSeq(p, 1, Len(p) - 1) ELSE p

SkipForFileMut(dirOnly, isDir) == FALSE

\* "Skip directory-only patterns if this is a file"
SkipForFile(dirOnly, isDir) == dirOnly /\ ~isDir

DoubleStarPrefixMut(pattern) == pattern

\* strings.TrimSuffix(pattern, "/**")
DoubleStarPrefix(pattern) == TrimSuffix(pattern, <<"/", "*", "*">>)

\* One iteration of the loop of shouldIgnore: TRUE when the iteration
\* returns (the rule decides the verdict), FALSE when it goes on to the
\* next pattern.
RuleMatches(line, path, isDir) ==
    LET pattern == PatternOf(line)
        exact == path = pattern
        wild == Contains(pattern, <<"*">>)
        baseHit == wild /\ Match(pattern, Base(path))
        starHit == /\ wild
                   /\ Contains(pattern, <<"*", "*">>)
                   /\ HasPrefix(path, DoubleStarPrefix(pattern))
        matched == exact \/ starHit
        prefixHit == /\ ~matched
                     /\ Contains(pattern, <<"/">>)
                     /\ HasPrefix(path, pattern)
    IN IF SkipForFile(DirOnly(line), isDir) THEN FALSE
       ELSE baseHit \/ matched \/ prefixHit

RECURSIVE shouldIgnoreFrom(_, _, _, _)
shouldIgnoreFrom(patterns, i, path, isDir) ==
    IF i > Len(patterns) THEN FALSE
    ELSE IF RuleMatches(patterns[i], path, isDir) THEN ~Negate(patterns[i])
    ELSE shouldIgnoreFrom(patterns, i + 1, path, isDir)

shouldIgnore(patterns, path, isDir) ==
    shouldIgnoreFrom(patterns, 1, ToSlash(path), isDir)

(***************************************************************************)
(* Inputs of the matcher                                                   *)
(***************************************************************************)
StringsOver(chars, n) == UNION {[1..k -> chars] : k \in 1..n}

\* A clean relative path, as filepath.Rel returns it for an entry below the
\* scan root: non-empty segments separated by single slashes.
IsCleanRel(s) ==
    /\ s # <<>>
    /\ s[1] # "/"
    /\ s[Len(s)] # "/"
    /\ \A i \in 1..(Len(s) - 1) : ~(s[i] = "/" /\ s[i + 1] = "/")

RelPaths(n) == {s \in StringsOver(NameChars \cup {"/"}, n) : IsCleanRel(s)}

\* Entries whose name is a glob metacharacter.
OddPaths == { <<"[">>, <<"a", "/", "[">> }

Paths == RelPaths(MaxPathLen) \cup OddPaths

Affixes == RelPaths(MaxAffixLen)

\* Lines of an ignore file as loadGitignoreFile keeps them: trimmed, not
\* blank, not starting with '#'.
Lines ==
    StringsOver(PatChars, MaxPatLen)
    \cup {a \o <<"/", "*", "*">> : a \in Affixes}
    \cup {<<"*", "*", "/">> \o a : a \in Affixes}
    \cup {<<"a", "/">> \o a : a \in Affixes}
    \cup { <<"[", "a", "]">>, <<"[", "a", "]", "*">>, <<"a", "*", "b">>,
           <<"*", "a", "*">>, <<"a", "/", "*">>, <<"!", "a", "/">>,
           <<"!", "a", "/", "*", "*">>, <<"a", "?", "/">>, <<"*", "/", "a">> }

PoolLines ==
    { <<"a">>, <<"!", "a">>, <<"a", "/">>, <<"!", "a", "/">>,
      <<"!", "b", "/", "a">>, <<"a", "*">>, <<"!", "*">>,
      <<"a", "/", "*", "*">>, <<"b", "/", "a", "/">> }

\* Lists in which a line with an unclosed character class stands before or
\* after another line.
MalformedLists ==
    UNION {{<<m, l>>, <<l, m>>} :
              m \in { <<"[">>, <<"!", "[">> },
              l \in { <<"a">>, <<"!", "a">>, <<"*">> }}

RuleLists ==
    {<<l>> : l \in Lines}
    \cup UNION {[1..k -> PoolLines] : k \in 0..MaxRules}
    \cup MalformedLists

(***************************************************************************)
(* package path/filepath, continued                                        *)
(***************************************************************************)
RECURSIVE JoinSegs(_)
JoinSegs(segs) ==
    IF segs = <<>> THEN <<>>
    ELSE IF Len(segs) = 1 THEN segs[1]
    ELSE segs[1] \o <<Separator>> \o JoinSegs(Tail(segs))

\* filepath.Join of a directory and a relative path, both clean.
Join(dir, rel) ==
    IF dir[Len(dir)] = Separator THEN dir \o rel
    ELSE dir \o <<Separator>> \o rel

RECURSIVE CommonLen(_, _)
CommonLen(a, b) ==
    IF a # <<>> /\ b # <<>> /\ a[1] = b[1]
    THEN 1 + CommonLen(Tail(a), Tail(b))
    ELSE 0

\* filepath.Rel for two clean absolute paths: the elements of targ after
\* the common prefix, preceded by one ".." for every remaining element of
\* base; "." when the two are equal.  (It returns an error only when one
\* path is absolute and the other is not, or base has a ".." left over.)
Rel(base, targ) ==
    LET b == Split(base)
        t == Split(targ)
        k == CommonLen(b, t)
    IN IF base = targ THEN <<".">>
       ELSE JoinSegs([i \in 1..(Len(b) - k) |-> <<".", ".">>]
                     \o SubSeq(t, k + 1, Len(t)))

\* filepath.Ext: the suffix of the last element starting at its final dot.
Ext(p) ==
    LET b == IF p = <<>> \/ p[Len(p)] = Separator THEN <<>> ELSE Base(p)
        dots == {i \in DOMAIN b : b[i] = "."}
    IN IF dots = {} THEN <<>>
       ELSE SubSeq(b, CHOOSE i \in dots : \A k \in dots : k <= i, Len(b))

(***************************************************************************)
(* Inputs of GenerateXML                                                   *)
(***************************************************************************)
DSStore == <<".", "D", "S", "_", "S", "t", "o", "r", "e">>

BaseDir == <<"/", "r">>

\* The entries a selection may hold, in tree order, each with what the
\* environment may answer for it: "ok" (a readable file), "gone" (open or
\* read fails), "ignored" (go-gitignore's MatchesPath is true for it under
\* baseDir/.gitignore), or "dir" (a directory entry).
RelPool ==
    << [rel |-> <<"a", ".", "g">>,      kinds |-> {"ok", "gone", "ignored"}],
       [rel |-> <<"d">>,                kinds |-> {"dir"}],
       [rel |-> <<"d", "/", "b">>,      kinds |-> {"ok", "gone", "ignored"}],
       [rel |-> <<"d", "/">> \o DSStore, kinds |-> {"gone"}],
       [rel |-> <<"e">>,                kinds |-> {"ok"}] >>

Kinds == {"ok", "gone", "ignored", "dir"}

\* A selection: for each pool index either absent or of one of its kinds,
\* at most MaxFiles entries, listed in pool order.
Picks ==
    {f \in [DOMAIN RelPool -> Kinds \cup {"absent"}] :
        /\ \A i \in DOMAIN RelPool : f[i] \in RelPool[i].kinds \cup {"absent"}
        /\ Cardinality({i \in DOMAIN RelPool : f[i] # "absent"}) <= MaxFiles}

RECURSIVE EntriesFrom(_, _)
EntriesFrom(pick, i) ==
    IF i > Len(RelPool) THEN <<>>
    ELSE IF pick[i] = "absent" THEN EntriesFrom(pick, i + 1)
    ELSE << [Path |-> Join(BaseDir, RelPool[i].rel),
             IsDir |-> pick[i] = "dir",
             kind |-> pick[i]] >> \o EntriesFrom(pick, i + 1)

Selections == {EntriesFrom(pick, 1) : pick \in Picks}

InstructionTexts == {<<"i">>}

(***************************************************************************)
(* GenerateXML                                                             *)
(***************************************************************************)
Nil == <<>>

NoFile == [Path |-> <<>>, Type |-> <<>>, Content |-> <<>>]

XMLHeader == <<"<?xml version=\"1.0\" encoding=\"UTF-8\"?>\n">>

\* What is on disk at a path.
DiskContent(p) == <<"#">> \o p

\* xml.Header + xml.MarshalIndent(prompt): the header followed by the
\* prompt element with its file records, in order, and its instructions.
Marshal(prompt) == <<XMLHeader, prompt>>

FileCountMut(fs) == Len(fs)

\* "Count how many files we need to process (non-directories)"
FileCount(fs) == Cardinality({i \in DOMAIN fs : ~fs[i].IsDir})

RelPathOfMut(baseDir, fileInfo) == fileInfo.Path

\* relPath, err := filepath.Rel(baseDir, fileInfo.Path)
RelPathOf(baseDir, fileInfo) == Rel(baseDir, fileInfo.Path)

\* "Skip .DS_Store files"
IsNoise(relPath) == HasSuffix(relPath, DSStore)

\* The worker's three `continue`s before the read.
Skips(baseDir, fileInfo) ==
    \/ fileInfo.IsDir
    \/ IsNoise(RelPathOf(baseDir, fileInfo))
    \/ fileInfo.kind = "ignored"

\* "Get file type": the extension without its leading dot.
FileTypeOf(fileInfo) ==
    LET ext == Ext(fileInfo.Path)
    IN IF ext # <<>> THEN Tail(ext) ELSE ext

ReadError(fileInfo) == <<"error reading file", fileInfo.Path>>

(***************************************************************************)
(* Order of strings: Go compares strings byte by byte                      *)
(***************************************************************************)
ByteOrder ==
    <<"!", "*", ".", "/", "?", "D", "S", "[", "]", "_",
      "a", "b", "d", "e", "g", "i", "n", "o", "r", "t">>

Ord(c) == CHOOSE i \in DOMAIN ByteOrder : ByteOrder[i] = c

RECURSIVE StringLess(_, _)
StringLess(s, t) ==
    IF t = <<>> THEN FALSE
    ELSE IF s = <<>> THEN TRUE
    ELSE IF Head(s) # Head(t) THEN Ord(Head(s)) < Ord(Head(t))
    ELSE StringLess(Tail(s), Tail(t))

\* The members of a set of strings in ascending order.
Ascending(S) ==
    CHOOSE s \in [1..Cardinality(S) -> S] :
        \A i, j \in DOMAIN s : i < j => StringLess(s[i], s[j])

\* filepath.Dir of a clean path: all but its last element; "." when there
\* is no separator, "/" when the only separator is the leading one.
Dir(p) ==
    LET seps == {i \in DOMAIN p : p[i] = Separator}
        last == CHOOSE i \in seps : \A k \in seps : k <= i
    IN IF seps = {} THEN <<".">>
       ELSE IF last = 1 THEN <<Separator>>
       ELSE SubSeq(p, 1, last - 1)

(***************************************************************************)
(* The file system ListFiles walks.  A disk is a record: dirs and files    *)
(* are the paths Lstat succeeds on, lines gives the rule lines of every    *)
(* .gitignore file, and noRead holds the paths that exist but cannot be    *)
(* opened (ReadDir of such a directory and Open of such a file fail).      *)
(***************************************************************************)
IgnoreFileName == <<".", "g", "i", "t", "i", "g", "n", "o", "r", "e">>

DirSize == 64

\* info.Size(): what Lstat reports for a path.
SizeOf(disk, p) == IF p \in disk.dirs THEN DirSize ELSE 4 * Len(p) + 3

\* The names ReadDir returns for a directory, sorted, as full paths.
ReadDirNames(disk, p) ==
    Ascending({q \in disk.dirs \cup disk.files : q # p /\ Dir(q) = p})

\* newGitignorePatterns: the rule lines of rootDir/.gitignore when os.Stat
\* finds it, none otherwise; an error when it is found but cannot be read.
newGitignorePatterns(disk, rootDir) ==
    LET gitignorePath == Join(rootDir, IgnoreFileName)
    IN IF gitignorePath \in disk.files
       THEN IF gitignorePath \in disk.noRead
            THEN [patterns |-> <<>>, err |-> <<"open", gitignorePath>>]
            ELSE [patterns |-> disk.lines[gitignorePath], err |-> Nil]
       ELSE [patterns |-> <<>>, err |-> Nil]

(***************************************************************************)
(* ListFiles                                                               *)
(***************************************************************************)
NoFilters ==
    [Extensions |-> <<>>, NamePattern |-> <<>>, IgnorePatterns |-> <<>>,
     SubPath |-> <<>>, RespectGitignore |-> FALSE]

\* Lines 173-186: the ignore-file rules exclude the entry.  The scan root
\* itself is never tested.
IgnoredByFile(filters, gitignore, dir, path, isDir) ==
    /\ filters.RespectGitignore
    /\ path # dir
    /\ shouldIgnore(gitignore, Rel(dir, path), isDir)

\* Lines 188-197: an explicit ignore glob matches the entry's base name; a
\* malformed glob (err != nil) is passed over.
IgnoredByGlob(filters, name) ==
    \E i \in DOMAIN filters.IgnorePatterns :
        Match(filters.IgnorePatterns[i], name)

ExtensionAllowedMut(filters, path) == TRUE

\* Lines 202-219: the allow-list is empty or holds the extension, compared
\* without its leading dot.
ExtensionAllowed(filters, path) ==
    LET dotted == Ext(path)
        ext == IF dotted # <<>> THEN Tail(dotted) ELSE dotted
    IN \/ Len(filters.Extensions) = 0
       \/ \E i \in DOMAIN filters.Extensions : filters.Extensions[i] = ext

\* Lines 221-227: the name glob is empty or matches the base name; a
\* malformed name glob rejects every file.
NameAllowed(filters, name) ==
    \/ filters.NamePattern = <<>>
    \/ Match(filters.NamePattern, name)

\* What the walk callback does with an entry it is handed without error:
\* "skip" it (with its subtree, for a directory) or "append" it.
Callback(filters, gitignore, dir, path, isDir) ==
    IF IgnoredByFile(filters, gitignore, dir, path, isDir) THEN "skip"
    ELSE IF IgnoredByGlob(filters, Base(path)) THEN "skip"
    ELSE IF /\ ~isDir
            /\ ~(/\ ExtensionAllowed(filters, path)
                 /\ NameAllowed(filters, Base(path)))
         THEN "skip"
    ELSE "append"

\* Lines 229-238: the entry appended for a path.
NewFileInfo(disk, path) ==
    [Path |-> path,
     Name |-> Base(path),
     IsDir |-> path \in disk.dirs,
     Size |-> SizeOf(disk, path),
     Extension |-> Ext(path),
     Selected |-> FALSE,
     TokenCount |-> SizeOf(disk, path) \div 4,
     Children |-> <<>>]

\* filepath.Walk below path, which Lstat has found.  A directory whose
\* ReadDir fails is handed to the callback with that error; the callback
\* answers nil without appending, and the directory is not entered.
RECURSIVE WalkFrom(_, _, _, _, _)
RECURSIVE WalkNames(_, _, _, _, _, _)
WalkFrom(disk, filters, gitignore, dir, path) ==
    IF path \in disk.files
    THEN IF Callback(filters, gitignore, dir, path, FALSE) = "append"
         THEN <<NewFileInfo(disk, path)>>
         ELSE <<>>
    ELSE IF path \in disk.noRead THEN <<>>
    ELSE IF Callback(filters, gitignore, dir, path, TRUE) = "skip" THEN <<>>
    ELSE <<NewFileInfo(disk, path)>>
         \o WalkNames(disk, filters, gitignore, dir,
                      ReadDirNames(disk, path), 1)

WalkNames(disk, filters, gitignore, dir, names, i) ==
    IF i > Len(names) THEN <<>>
    ELSE WalkFrom(disk, filters, gitignore, dir, names[i])
         \o WalkNames(disk, filters, gitignore, dir, names, i + 1)

\* filepath.Walk(dir, callback): when Lstat of the root fails the callback
\* is handed the error, answers nil, and Walk returns nil.
Walk(disk, filters, gitignore, dir) ==
    IF dir \in disk.dirs \cup disk.files
    THEN WalkFrom(disk, filters, gitignore, dir, dir)
    ELSE <<>>

ListFiles(disk, dir0, filters) ==
    LET dir == IF filters.SubPath # <<>> THEN Join(dir0, filters.SubPath)
               ELSE dir0
        loaded == IF filters.RespectGitignore
                  THEN newGitignorePatterns(disk, dir)
                  ELSE [patterns |-> <<>>, err |-> Nil]
    IN IF loaded.err # Nil
       THEN [result |-> <<>>, err |-> loaded.err]
       ELSE [result |-> Walk(disk, filters, loaded.patterns, dir),
             err |-> Nil]

(***************************************************************************)
(* BuildFileTree.  Entries are objects on a heap: a sequence of FileInfo   *)
(* records, an entry's identity being its index, and Children and every    *)
(* []*FileInfo being sequences of indices.  A tree under construction is   *)
(* [heap, root].                                                           *)
(***************************************************************************)
SeqRange(s) == {s[i] : i \in DOMAIN s}

\* Every arrangement of the members of a sequence.
Arrangements(s) == {[i \in DOMAIN s |-> s[f[i]]] : f \in Permutations(DOMAIN s)}

\* Lines 301-310: dirMap[file.Path] = file for every directory of files, a
\* later entry replacing an earlier one of the same path.
DirMapOf(heap, files) ==
    LET at(p) == {i \in DOMAIN files :
                      heap[files[i]].IsDir /\ heap[files[i]].Path = p}
        dirPaths == {heap[files[i]].Path :
                        i \in {k \in DOMAIN files : heap[files[k]].IsDir}}
    IN [p \in dirPaths |->
            files[CHOOSE i \in at(p) : \A k \in at(p) : k <= i]]

\* Lines 313-329, one iteration: a file goes to its parent directory's
\* Children when the parent is in dirMap, to the root list otherwise.
PlaceFile(tree, dirMap, id) ==
    LET file == tree.heap[id]
        parentPath == Dir(file.Path)
    IN IF file.IsDir THEN tree
       ELSE IF parentPath \in DOMAIN dirMap
       THEN [tree EXCEPT !.heap[dirMap[parentPath]].Children = Append(@, id)]
       ELSE [tree EXCEPT !.root = Append(@, id)]

RECURSIVE PlaceFiles(_, _, _, _)
PlaceFiles(tree, dirMap, files, i) ==
    IF i > Len(files) THEN tree
    ELSE PlaceFiles(PlaceFile(tree, dirMap, files[i]), dirMap, files, i + 1)

PlaceDirMut(tree, dirMap, id) ==
    LET dir == tree.heap[id]
        alreadyInRoot == \E k \in DOMAIN tree.root :
                             tree.heap[tree.root[k]].Path = dir.Path
        parentPath == Dir(dir.Path)
    IN IF alreadyInRoot THEN tree
       ELSE IF parentPath = dir.Path \/ parentPath = <<".">>
       THEN [tree EXCEPT !.root = Append(@, id)]
       ELSE IF /\ parentPath \in DOMAIN dirMap
               /\ tree.heap[dirMap[parentPath]].Path # dir.Path
       THEN [tree EXCEPT !.heap[dirMap[parentPath]].Children = Append(@, id)]
       ELSE tree

\* Lines 332-362, one iteration: a directory not yet among the roots goes
\* to the root list when it has no parent path, to its parent's Children
\* when the parent is in dirMap, to the root list otherwise.
PlaceDir(tree, dirMap, id) ==
    LET dir == tree.heap[id]
        alreadyInRoot == \E k \in DOMAIN tree.root :
                             tree.heap[tree.root[k]].Path = dir.Path
        parentPath == Dir(dir.Path)
    IN IF alreadyInRoot THEN tree
       ELSE IF parentPath = dir.Path \/ parentPath = <<".">>
       THEN [tree EXCEPT !.root = Append(@, id)]
       ELSE IF /\ parentPath \in DOMAIN dirMap
               /\ tree.heap[dirMap[parentPath]].Path # dir.Path
       THEN [tree EXCEPT !.heap[dirMap[parentPath]].Children = Append(@, id)]
       ELSE [tree EXCEPT !.root = Append(@, id)]

RECURSIVE PlaceDirs(_, _, _, _)
PlaceDirs(tree, dirMap, order, i) ==
    IF i > Len(order) THEN tree
    ELSE PlaceDirs(PlaceDir(tree, dirMap, order[i]), dirMap, order, i + 1)

\* Lines 364-377: with no root at all, the directories of files become
\* the roots, or failing that files itself.
Fallback(tree, files) ==
    LET dirs == SelectSeq(files, LAMBDA id : tree.heap[id].IsDir)
    IN IF Len(tree.root) = 0 /\ Len(files) > 0
       THEN [tree EXCEPT !.root = IF Len(dirs) > 0 THEN dirs ELSE files]
       ELSE tree

\* The comparator of sortFileTreeDirectoriesFirst.
DirectoriesFirstLess(a, b) ==
    IF a.IsDir # b.IsDir THEN a.IsDir
    ELSE StringLess(a.Name, b.Name)

sortFileTreeDirectoriesFirstMut(heap, files) == {files}

\* sort.Slice with that comparator: it is not stable, so any arrangement
\* that the comparator finds in order may come out.
sortFileTreeDirectoriesFirst(heap, files) ==
    {s \in Arrangements(files) :
        \A i, j \in DOMAIN s :
            i < j => ~DirectoriesFirstLess(heap[s[j]], heap[s[i]])}

\* Lines 383-387: the Children of every directory of files, sorted.
RECURSIVE SortChildren(_, _, _)
SortChildren(heap, files, i) ==
    IF i > Len(files) THEN {heap}
    ELSE IF heap[files[i]].IsDir /\ Len(heap[files[i]].Children) > 0
    THEN UNION {SortChildren([heap EXCEPT ![files[i]].Children = s],
                             files, i + 1) :
                   s \in sortFileTreeDirectoriesFirst(
                             heap, heap[files[i]].Children)}
    ELSE SortChildren(heap, files, i + 1)

\* BuildFileTree(files) on a heap: every [heap, root] it may leave.  The
\* third pass ranges over a Go map, so it may meet the directories in any
\* order.
BuildFileTree(heap, files) ==
    LET dirMap == DirMapOf(heap, files)
        placed == PlaceFiles([heap |-> heap, root |-> <<>>], dirMap, files, 1)
        dirIds == {dirMap[p] : p \in DOMAIN dirMap}
        orders == {o \in [1..Cardinality(dirIds) -> dirIds] :
                      \A i, j \in DOMAIN o : i # j => o[i] # o[j]}
        unsorted == {Fallback(PlaceDirs(placed, dirMap, o, 1), files) :
                        o \in orders}
    IN UNION {UNION {{[heap |-> h, root |-> r] :
                         h \in SortChildren(t.heap, files, 1)} :
                     r \in sortFileTreeDirectoriesFirst(t.heap, t.root)} :
              t \in unsorted}

(***************************************************************************)
(* CalculateDirectoryTokenCount                                            *)
(***************************************************************************)
\* The call on entry dir: the heap it leaves, with the TokenCount of dir
\* and of every directory below it rewritten, and the total it returns.
RECURSIVE CalculateDirectoryTokenCount(_, _)
RECURSIVE SumChildren(_, _, _, _)
CalculateDirectoryTokenCount(heap, dir) ==
    IF ~heap[dir].IsDir
    THEN [heap |-> heap, total |-> heap[dir].TokenCount]
    ELSE LET sum == SumChildren(heap, heap[dir].Children, 1, 0)
         IN [heap |-> [sum.heap EXCEPT ![dir].TokenCount = sum.total],
             total |-> sum.total]

SumChildren(heap, children, i, totalTokens) ==
    IF i > Len(children) THEN [heap |-> heap, total |-> totalTokens]
    ELSE IF heap[children[i]].IsDir
    THEN LET sub == CalculateDirectoryTokenCount(heap, children[i])
         IN SumChildren(sub.heap, children, i + 1, totalTokens + sub.total)
    ELSE SumChildren(heap, children, i + 1,
                     totalTokens + heap[children[i]].TokenCount)

\* The directories of a list recomputed one after the other.
RECURSIVE CalculateEach(_, _, _)
CalculateEach(heap, files, i) ==
    IF i > Len(files) THEN heap
    ELSE IF heap[files[i]].IsDir
    THEN CalculateEach(CalculateDirectoryTokenCount(heap, files[i]).heap,
                       files, i + 1)
    ELSE CalculateEach(heap, files, i + 1)

(***************************************************************************)
(* FormatTokenCount                                                        *)
(***************************************************************************)
Thousand == 1000

Million == 1000000

DigitChars == <<"0", "1", "2", "3", "4", "5", "6", "7", "8", "9">>

\* fmt's %d of a non-negative int.
RECURSIVE Decimal(_)
Decimal(n) ==
    IF n < 10 THEN <<DigitChars[n + 1]>>
    ELSE Decimal(n \div 10) \o <<DigitChars[(n % 10) + 1]>>

\* The odd part of a power of ten: count/unit is a binary fraction, and so
\* float64(count)/unit is exact, only when this divides count.
RECURSIVE OddPart(_)
OddPart(unit) == IF unit % 2 = 0 THEN OddPart(unit \div 2) ELSE unit

\* The tenths that %.1f may print for float64(count)/unit.  The quotient
\* is rounded to the nearest tenth.  Halfway between two tenths, an exact
\* quotient goes to the even one; an inexact one has been rounded to a
\* float64 just above or just below the half, and which of the two is not
\* followed here, so both tenths are kept.
Tenths(count, unit) ==
    LET lo == (count * 10) \div unit
        rem == (count * 10) % unit
    IN IF 2 * rem < unit THEN {lo}
       ELSE IF 2 * rem > unit THEN {lo + 1}
       ELSE IF count % OddPart(unit) = 0
       THEN {IF lo % 2 = 0 THEN lo ELSE lo + 1}
       ELSE {lo, lo + 1}

\* fmt's %.1f followed by a suffix.
OneDecimal(tenths, suffix) ==
    Decimal(tenths \div 10) \o <<".">> \o Decimal(tenths % 10) \o <<suffix>>

IsSmallMut(count) == count <= Thousand

\* count < 1000
IsSmall(count) == count < Thousand

\* Every string FormatTokenCount(count) may return.
FormatTokenCount(count) ==
    IF IsSmall(count) THEN {Decimal(count)}
    ELSE IF count < Million
    THEN {OneDecimal(t, "K") : t \in Tenths(count, Thousand)}
    ELSE {OneDecimal(t, "M") : t \in Tenths(count, Million)}

(***************************************************************************)
(* State                                                                   *)
(***************************************************************************)
VARIABLES
    patterns,   \* gitignorePatterns.patterns
    path,       \* argument of the last shouldIgnore call
    isDir,      \* argument of the last shouldIgnore call
    ignored,    \* its return value
    mpc,        \* "ready" before the call, "returned" after it
    files,      \* GenerateXML: the files argument
    instructions, \* GenerateXML: the instructions argument
    numCPU,     \* runtime.NumCPU()
    gpc,        \* position of the goroutine that runs GenerateXML
    next,       \* index of the next entry the dispatch loop looks at
    workChan,   \* buffered channel of entries (indices into files)
    workClosed,
    resultChan, \* buffered channel of fileReadResult
    resultClosed,
    wg,         \* counter of the WaitGroup
    wpc,        \* position of each worker goroutine
    cur,        \* entry each worker is processing (0: none)
    buf,        \* pooled buffer each worker holds (0: none)
    content,    \* what each worker read
    bufferPool, \* buffers at rest in the pool
    made,       \* buffers the pool's New has created
    cpc,        \* position of the goroutine that closes resultChan
    promptFiles, \* prompt.Files
    lastError,
    processedCount,
    ret,        \* what GenerateXML returned
    fate        \* per entry: what a worker did with it

VARIABLES
    disk,       \* the file system: [dirs, files, lines, noRead]
    filters,    \* the FileFilters of the scan
    listed,     \* what the last ListFiles call returned: [result, err]
    spc,        \* "ready" before the ListFiles call, "returned" after it
    heap,       \* the FileInfo objects allocated so far
    flat,       \* BuildFileTree: the files argument
    built,      \* BuildFileTree: the roots it returned
    bpc,        \* "ready" before the BuildFileTree call, "returned" after
    treeFiles,  \* FileTree.files
    loadErr,    \* what LoadDirectory returned
    loadedDirs, \* the directories loadChildren has attached children to
    tpc,        \* "new" before LoadDirectory, then "loaded" or "failed"
    count,      \* FormatTokenCount: the count argument
    formatted,  \* its return value
    fpc         \* "ready" before the FormatTokenCount call, "returned" after

mvars == <<patterns, path, isDir, ignored, mpc>>

svars == <<disk, filters, listed, spc>>

bvars == <<heap, flat, built, bpc>>

tvars == <<treeFiles, loadErr, loadedDirs, tpc>>

fvars == <<count, formatted, fpc>>

VARIABLES
    clicks,     \* how many checkbox changes have been handled
    tasks,      \* the goroutines the checkbox handlers and toggleSelection
                \* started: [file, checked, pc]
    picked,     \* what the last GetSelectedFiles call returned
    checkedBoxes, \* the paths whose check box is checked
    runs,       \* the runs of generateAndCopy: [pc, xml, err, copies]
    xmlPrompt,  \* App.xmlPrompt
    clipboard   \* what CopyToClipboard wrote last

uvars == <<clicks, tasks, picked, checkedBoxes>>

avars == <<runs, xmlPrompt, clipboard>>

nvars == <<uvars, avars>>

\* Everything outside the matcher and GenerateXML.
xvars == <<svars, bvars, tvars, fvars, nvars>>

gvars == <<files, instructions, numCPU, gpc, next, workChan, workClosed,
           resultChan, resultClosed, wg, wpc, cur, buf, content, bufferPool,
           made, cpc, promptFiles, lastError, processedCount, ret, fate>>

vars == <<mvars, gvars, xvars>>

NumWorkers == numCPU * 2

Workers == 1..NumWorkers

NoRet == [xml |-> <<>>, err |-> Nil, done |-> FALSE]

GenIdle ==
    /\ gpc = "entry"
    /\ next = 1
    /\ workChan = <<>>
    /\ workClosed = FALSE
    /\ resultChan = <<>>
    /\ resultClosed = FALSE
    /\ wg = 0
    /\ wpc = [w \in Workers |-> "none"]
    /\ cur = [w \in Workers |-> 0]
    /\ buf = [w \in Workers |-> 0]
    /\ content = [w \in Workers |-> <<>>]
    /\ bufferPool = {}
    /\ made = 0
    /\ cpc = "none"
    /\ promptFiles = <<>>
    /\ lastError = Nil
    /\ processedCount = 0
    /\ ret = NoRet
    /\ fate = [i \in DOMAIN files |-> "none"]

MatcherIdle ==
    /\ path = <<>>
    /\ isDir = FALSE
    /\ ignored = FALSE
    /\ mpc = "ready"

NoDisk == [dirs |-> {}, files |-> {}, lines |-> <<>>, noRead |-> {}]

NoListing == [result |-> <<>>, err |-> Nil]

ScanIdle ==
    /\ listed = NoListing
    /\ spc = "ready"

BuildIdle ==
    /\ flat = <<>>
    /\ built = <<>>
    /\ bpc = "ready"

TreeIdle ==
    /\ treeFiles = <<>>
    /\ loadErr = Nil
    /\ loadedDirs = {}
    /\ tpc = "new"

FormatIdle ==
    /\ formatted = <<>>
    /\ fpc = "ready"

UiIdle ==
    /\ clicks = 0
    /\ tasks = <<>>
    /\ picked = <<>>
    /\ checkedBoxes = {}

AppIdle ==
    /\ runs = <<>>
    /\ xmlPrompt = <<>>
    /\ clipboard = <<>>

\* The state of everything outside the matcher and GenerateXML when only
\* those two are exercised.
OthersIdle ==
    /\ disk = NoDisk
    /\ filters = NoFilters
    /\ ScanIdle
    /\ heap = <<>>
    /\ BuildIdle
    /\ TreeIdle
    /\ count = 0
    /\ FormatIdle
    /\ UiIdle
    /\ AppIdle

MatcherInit ==
    /\ patterns \in RuleLists
    /\ MatcherIdle
    /\ files = <<>>
    /\ instructions = <<>>
    /\ numCPU = 1
    /\ GenIdle
    /\ OthersIdle

ShouldIgnoreCall(p, d) ==
    /\ mpc = "ready"
    /\ path' = p
    /\ isDir' = d
    /\ ignored' = shouldIgnore(patterns, p, d)
    /\ mpc' = "returned"
    /\ UNCHANGED <<patterns, gvars, xvars>>

MatcherNext == \E p \in Paths, d \in BOOLEAN : ShouldIgnoreCall(p, d)

MatcherSpec == MatcherInit /\ [][MatcherNext]_vars

(***************************************************************************)
(* GenerateXML: the calling goroutine                                      *)
(***************************************************************************)
GenInit ==
    /\ patterns = <<>>
    /\ MatcherIdle
    /\ files \in Selections
    /\ instructions \in InstructionTexts
    /\ numCPU \in 1..MaxCPU
    /\ GenIdle
    /\ OthersIdle

\* Lines 54-73: no file entry, return the empty document at once.
ReturnEmpty ==
    /\ gpc = "entry"
    /\ FileCount(files) = 0
    /\ ret' = [xml |-> Marshal([Files |-> <<>>, Instructions |-> instructions]),
               err |-> Nil, done |-> TRUE]
    /\ gpc' = "returned"
    /\ UNCHANGED <<xvars, mvars, files, instructions, numCPU, next, workChan,
                   workClosed, resultChan, resultClosed, wg, wpc, cur, buf,
                   content, bufferPool, made, cpc, promptFiles, lastError,
                   processedCount, fate>>

\* Lines 75-154: make the channels and start numWorkers goroutines.
StartWorkers ==
    /\ gpc = "entry"
    /\ FileCount(files) # 0
    /\ wg' = NumWorkers
    /\ wpc' = [w \in Workers |-> "recv"]
    /\ gpc' = "dispatch"
    /\ UNCHANGED <<xvars, mvars, files, instructions, numCPU, next, workChan,
                   workClosed, resultChan, resultClosed, cur, buf, content,
                   bufferPool, made, cpc, promptFiles, lastError,
                   processedCount, ret, fate>>

CapacityMut(fileCount) == 0

\* Lines 76 and 84: both channels are made with room for fileCount items.
Capacity(fileCount) == fileCount

EnqueueMut(ch, i) == Append(Append(ch, i), i)

\* Line 159: workChan <- file
Enqueue(ch, i) == Append(ch, i)

\* Lines 157-161: one iteration of the dispatch loop.
Dispatch ==
    /\ gpc = "dispatch"
    /\ next <= Len(files)
    /\ IF files[next].IsDir
       THEN UNCHANGED workChan
       ELSE /\ Len(workChan) < Capacity(FileCount(files))
            /\ workChan' = Enqueue(workChan, next)
    /\ next' = next + 1
    /\ UNCHANGED <<xvars, mvars, files, instructions, numCPU, gpc, workClosed,
                   resultChan, resultClosed, wg, wpc, cur, buf, content,
                   bufferPool, made, cpc, promptFiles, lastError,
                   processedCount, ret, fate>>

\* Line 162: close(workChan).
CloseWork ==
    /\ gpc = "dispatch"
    /\ next > Len(files)
    /\ workClosed' = TRUE
    /\ gpc' = "spawn"
    /\ UNCHANGED <<xvars, mvars, files, instructions, numCPU, next, workChan,
                   resultChan, resultClosed, wg, wpc, cur, buf, content,
                   bufferPool, made, cpc, promptFiles, lastError,
                   processedCount, ret, fate>>

\* Lines 165-175: start the goroutine that waits for the workers.
SpawnCloser ==
    /\ gpc = "spawn"
    /\ cpc' = "wait"
    /\ gpc' = "collect"
    /\ UNCHANGED <<xvars, mvars, files, instructions, numCPU, next, workChan,
                   workClosed, resultChan, resultClosed, wg, wpc, cur, buf,
                   content, bufferPool, made, promptFiles, lastError,
                   processedCount, ret, fate>>

CollectFilesMut(fs, result) == IF fs = <<>> THEN Append(fs, result.file) ELSE fs

\* Line 185: prompt.Files = append(prompt.Files, result.file)
CollectFiles(fs, result) == Append(fs, result.file)

CollectErrorMut(last, result) == IF last = Nil THEN result.err ELSE Nil

\* Line 180: lastError = result.err
CollectError(last, result) == result.err

\* Lines 178-192: one iteration of the collector's range over resultChan.
Collect ==
    /\ gpc = "collect"
    /\ resultChan # <<>>
    /\ LET result == Head(resultChan) IN
         IF result.err # Nil
         THEN /\ lastError' = CollectError(lastError, result)
              /\ UNCHANGED <<promptFiles, processedCount>>
         ELSE /\ promptFiles' = CollectFiles(promptFiles, result)
              /\ processedCount' = processedCount + 1
              /\ UNCHANGED lastError
    /\ resultChan' = Tail(resultChan)
    /\ UNCHANGED <<xvars, mvars, files, instructions, numCPU, gpc, next, workChan,
                   workClosed, resultClosed, wg, wpc, cur, buf, content,
                   bufferPool, made, cpc, ret, fate>>

\* Lines 194-205: the range ends on the closed, drained channel; marshal
\* and return.
ReturnDocument ==
    /\ gpc = "collect"
    /\ resultChan = <<>>
    /\ resultClosed
    /\ ret' = [xml |-> Marshal([Files |-> promptFiles,
                                Instructions |-> instructions]),
               err |-> lastError, done |-> TRUE]
    /\ gpc' = "returned"
    /\ UNCHANGED <<xvars, mvars, files, instructions, numCPU, next, workChan,
                   workClosed, resultChan, resultClosed, wg, wpc, cur, buf,
                   content, bufferPool, made, cpc, promptFiles, lastError,
                   processedCount, fate>>

(***************************************************************************)
(* GenerateXML: the workers and the closer                                 *)
(***************************************************************************)
\* Line 92: receive the next entry of workChan.
WorkerReceive(w) ==
    /\ wpc[w] = "recv"
    /\ workChan # <<>>
    /\ cur' = [cur EXCEPT ![w] = Head(workChan)]
    /\ workChan' = Tail(workChan)
    /\ wpc' = [wpc EXCEPT ![w] = "check"]
    /\ UNCHANGED <<xvars, mvars, files, instructions, numCPU, gpc, next, workClosed,
                   resultChan, resultClosed, wg, buf, content, bufferPool,
                   made, cpc, promptFiles, lastError, processedCount, ret,
                   fate>>

\* Lines 92 and 91: the range ends on the closed, drained channel and the
\* deferred wg.Done() runs.
WorkerExit(w) ==
    /\ wpc[w] = "recv"
    /\ workChan = <<>>
    /\ workClosed
    /\ wg' = wg - 1
    /\ wpc' = [wpc EXCEPT ![w] = "done"]
    /\ UNCHANGED <<xvars, mvars, files, instructions, numCPU, gpc, next, workChan,
                   workClosed, resultChan, resultClosed, cur, buf, content,
                   bufferPool, made, cpc, promptFiles, lastError,
                   processedCount, ret, fate>>

\* Lines 93-116: a directory, a .DS_Store file or an ignored file is
\* dropped without a result.
WorkerSkip(w) ==
    /\ wpc[w] = "check"
    /\ Skips(BaseDir, files[cur[w]])
    /\ fate' = [fate EXCEPT ![cur[w]] = "skipped"]
    /\ cur' = [cur EXCEPT ![w] = 0]
    /\ wpc' = [wpc EXCEPT ![w] = "recv"]
    /\ UNCHANGED <<xvars, mvars, files, instructions, numCPU, gpc, next, workChan,
                   workClosed, resultChan, resultClosed, wg, buf, content,
                   bufferPool, made, cpc, promptFiles, lastError,
                   processedCount, ret>>

\* Lines 118-126: bufferPool.Get() hands out a buffer at rest, or a new
\* one when none is at rest.
WorkerGet(w) ==
    /\ wpc[w] = "check"
    /\ ~Skips(BaseDir, files[cur[w]])
    /\ IF bufferPool = {}
       THEN /\ made' = made + 1
            /\ buf' = [buf EXCEPT ![w] = made + 1]
            /\ UNCHANGED bufferPool
       ELSE \E b \in bufferPool :
            /\ bufferPool' = bufferPool \ {b}
            /\ buf' = [buf EXCEPT ![w] = b]
            /\ UNCHANGED made
    /\ wpc' = [wpc EXCEPT ![w] = "read"]
    /\ UNCHANGED <<xvars, mvars, files, instructions, numCPU, gpc, next, workChan,
                   workClosed, resultChan, resultClosed, wg, cur, content,
                   cpc, promptFiles, lastError, processedCount, ret, fate>>

\* Lines 129-130 and 208-244: readFileWithBuffer succeeds.
WorkerReadOk(w) ==
    /\ wpc[w] = "read"
    /\ files[cur[w]].kind # "gone"
    /\ content' = [content EXCEPT ![w] = DiskContent(files[cur[w]].Path)]
    /\ fate' = [fate EXCEPT ![cur[w]] = "read"]
    /\ wpc' = [wpc EXCEPT ![w] = "sendOk"]
    /\ UNCHANGED <<xvars, mvars, files, instructions, numCPU, gpc, next, workChan,
                   workClosed, resultChan, resultClosed, wg, cur, buf,
                   bufferPool, made, cpc, promptFiles, lastError,
                   processedCount, ret>>

PutMut(pool, b) == pool

\* Lines 131 and 151: bufferPool.Put(bufPtr) puts the buffer at rest.
Put(pool, b) == pool \cup {b}

\* Lines 129-132: readFileWithBuffer fails; the buffer goes back first.
WorkerReadFail(w) ==
    /\ wpc[w] = "read"
    /\ files[cur[w]].kind = "gone"
    /\ bufferPool' = Put(bufferPool, buf[w])
    /\ buf' = [buf EXCEPT ![w] = 0]
    /\ fate' = [fate EXCEPT ![cur[w]] = "failed"]
    /\ wpc' = [wpc EXCEPT ![w] = "sendErr"]
    /\ UNCHANGED <<xvars, mvars, files, instructions, numCPU, gpc, next, workChan,
                   workClosed, resultChan, resultClosed, wg, cur, content,
                   made, cpc, promptFiles, lastError, processedCount, ret>>

\* Lines 134-137: publish the per-file error.
WorkerSendErr(w) ==
    /\ wpc[w] = "sendErr"
    /\ Len(resultChan) < Capacity(FileCount(files))
    /\ resultChan' = Append(resultChan,
                            [file |-> NoFile, err |-> ReadError(files[cur[w]])])
    /\ cur' = [cur EXCEPT ![w] = 0]
    /\ wpc' = [wpc EXCEPT ![w] = "recv"]
    /\ UNCHANGED <<xvars, mvars, files, instructions, numCPU, gpc, next, workChan,
                   workClosed, resultClosed, wg, buf, content, bufferPool,
                   made, cpc, promptFiles, lastError, processedCount, ret,
                   fate>>

\* Lines 141-148: publish the record.
WorkerSendOk(w) ==
    /\ wpc[w] = "sendOk"
    /\ Len(resultChan) < Capacity(FileCount(files))
    /\ resultChan' = Append(resultChan,
            [file |-> [Path |-> RelPathOf(BaseDir, files[cur[w]]),
                       Type |-> FileTypeOf(files[cur[w]]),
                       Content |-> content[w]],
             err |-> Nil])
    /\ wpc' = [wpc EXCEPT ![w] = "put"]
    /\ UNCHANGED <<xvars, mvars, files, instructions, numCPU, gpc, next, workChan,
                   workClosed, resultClosed, wg, cur, buf, content,
                   bufferPool, made, cpc, promptFiles, lastError,
                   processedCount, ret, fate>>

\* Line 151: bufferPool.Put(bufPtr).
WorkerPut(w) ==
    /\ wpc[w] = "put"
    /\ bufferPool' = Put(bufferPool, buf[w])
    /\ buf' = [buf EXCEPT ![w] = 0]
    /\ content' = [content EXCEPT ![w] = <<>>]
    /\ cur' = [cur EXCEPT ![w] = 0]
    /\ wpc' = [wpc EXCEPT ![w] = "recv"]
    /\ UNCHANGED <<xvars, mvars, files, instructions, numCPU, gpc, next, workChan,
                   workClosed, resultChan, resultClosed, wg, made, cpc,
                   promptFiles, lastError, processedCount, ret, fate>>

WaitReturnsMut(counter) == counter <= 1

\* Line 166: wg.Wait() returns when the counter is zero.
WaitReturns(counter) == counter = 0

\* Lines 165-168: wg.Wait() returns once every worker is done, then
\* close(resultChan).
CloseResults ==
    /\ cpc = "wait"
    /\ WaitReturns(wg)
    /\ resultClosed' = TRUE
    /\ cpc' = "done"
    /\ UNCHANGED <<xvars, mvars, files, instructions, numCPU, gpc, next, workChan,
                   workClosed, resultChan, wg, wpc, cur, buf, content,
                   bufferPool, made, promptFiles, lastError, processedCount,
                   ret, fate>>

WorkerStep(w) ==
    \/ WorkerReceive(w)
    \/ WorkerExit(w)
    \/ WorkerSkip(w)
    \/ WorkerGet(w)
    \/ WorkerReadOk(w)
    \/ WorkerReadFail(w)
    \/ WorkerSendErr(w)
    \/ WorkerSendOk(w)
    \/ WorkerPut(w)

GenNext ==
    \/ ReturnEmpty
    \/ StartWorkers
    \/ Dispatch
    \/ CloseWork
    \/ SpawnCloser
    \/ Collect
    \/ ReturnDocument
    \/ CloseResults
    \/ \E w \in Workers : WorkerStep(w)

GenSpec == GenInit /\ [][GenNext]_vars

\* The runs of the two workers of a one-CPU machine.
GenFairInit == GenInit /\ numCPU = 1

\* The Go scheduler runs some goroutine that can take a step.
GenFairSpec == GenFairInit /\ [][GenNext]_vars /\ WF_vars(GenNext)

(***************************************************************************)
(* Inputs of ListFiles: the directory handed to it, what is on disk below  *)
(* it, and the filters.                                                    *)
(***************************************************************************)
CurrentDir == <<"/", "r">>

\* The entries that may exist below CurrentDir, parents before children.
NodePool ==
    << [rel |-> <<"a", ".", "g">>,                     isDir |-> FALSE],
       [rel |-> <<"d">>,                               isDir |-> TRUE],
       [rel |-> <<"d", "/", "b">>,                     isDir |-> FALSE],
       [rel |-> <<"d", "/", "e">>,                     isDir |-> TRUE],
       [rel |-> <<"d", "/", "e", "/", "a", ".", "g">>, isDir |-> FALSE] >>

NodePath(k) == Join(CurrentDir, NodePool[k].rel)

\* Sets of pool entries in which every entry has its parent.
Shapes ==
    {S \in SUBSET DOMAIN NodePool :
        /\ Cardinality(S) <= MaxNodes
        /\ \A k \in S :
              \/ Dir(NodePath(k)) = CurrentDir
              \/ \E j \in S : /\ NodePool[j].isDir
                              /\ NodePath(j) = Dir(NodePath(k))}

\* The rule lines a .gitignore of CurrentDir may hold.
ScanLines ==
    { <<"b">>, <<"d", "/", "b">>, <<"d", "/">>, <<"*">> }

IgnoreFiles == UNION {[1..k -> ScanLines] : k \in 0..MaxIgnoreLines}

IgnoreFilePath == Join(CurrentDir, IgnoreFileName)

DiskOf(S, ignoreFile, noRead) ==
    [dirs |-> {CurrentDir} \cup {NodePath(k) : k \in {j \in S : NodePool[j].isDir}},
     files |-> {NodePath(k) : k \in {j \in S : ~NodePool[j].isDir}}
               \cup {IgnoreFilePath : i \in DOMAIN ignoreFile},
     lines |-> [p \in {IgnoreFilePath : i \in DOMAIN ignoreFile} |-> ignoreFile[1]],
     noRead |-> noRead]

\* At most one path that exists but cannot be opened: CurrentDir, the
\* directory d, or the .gitignore.
NoReadSets(S, ignoreFile) ==
    {{}} \cup {{CurrentDir}}
         \cup {{NodePath(k)} : k \in {j \in S : j = 2}}
         \cup {{IgnoreFilePath} : i \in DOMAIN ignoreFile}

\* The disks: CurrentDir missing altogether, or present with a shape, with
\* or without a .gitignore, and with at most one unreadable path.  The
\* .gitignore is passed as a sequence holding its rule list, empty when
\* there is no such file.
Disks ==
    {NoDisk}
    \cup UNION {UNION {{DiskOf(S, g, nr) : nr \in NoReadSets(S, g)} :
                   g \in {<<>>} \cup {<<l>> : l \in IgnoreFiles}} :
                S \in Shapes}

ExtensionLists == {<<>>, << <<"g">> >>}

NamePatterns == {<<>>, <<"a", "*">>, <<"[">>}

IgnoreGlobs == { <<"d">>, <<"[">>, <<"*", ".", "g">> }

IgnorePatternLists == UNION {[1..k -> IgnoreGlobs] : k \in 0..MaxGlobs}

SubPaths == {<<>>, <<"d">>}

FilterSets ==
    [Extensions : ExtensionLists,
     NamePattern : NamePatterns,
     IgnorePatterns : IgnorePatternLists,
     SubPath : SubPaths,
     RespectGitignore : BOOLEAN]

(***************************************************************************)
(* ListFiles as a call                                                     *)
(***************************************************************************)
ScanInit ==
    /\ patterns = <<>>
    /\ MatcherIdle
    /\ files = <<>>
    /\ instructions = <<>>
    /\ numCPU = 1
    /\ GenIdle
    /\ disk \in Disks
    /\ filters \in FilterSets
    /\ ScanIdle
    /\ heap = <<>>
    /\ BuildIdle
    /\ TreeIdle
    /\ count = 0
    /\ FormatIdle
    /\ UiIdle
    /\ AppIdle

ListFilesCall ==
    /\ spc = "ready"
    /\ listed' = ListFiles(disk, CurrentDir, filters)
    /\ spc' = "returned"
    /\ UNCHANGED <<nvars, mvars, gvars, disk, filters, bvars, tvars, fvars>>

ScanNext == ListFilesCall

ScanSpec == ScanInit /\ [][ScanNext]_vars

(***************************************************************************)
(* BuildFileTree as a call                                                 *)
(***************************************************************************)
\* The entries a flat list may hold: absolute and relative paths, a file
\* whose directory is not in the pool, and two files of the same name.
EntryPool ==
    [dirs |-> { <<"/", "r">>, <<"/", "r", "/", "d">>,
                <<"/", "r", "/", "d", "/", "e">>, <<"d">> },
     files |-> { <<"/", "r", "/", "a", ".", "g">>,
                 <<"/", "r", "/", "d", "/", "b">>,
                 <<"/", "r", "/", "e", "/", "b">>,
                 <<"/", "r", "/", "D">> },
     lines |-> <<>>,
     noRead |-> {}]

\* Lists of entries with pairwise different paths, in any order.
FlatLists ==
    UNION {{l \in [1..n -> EntryPool.dirs \cup EntryPool.files] :
               \A i, j \in 1..n : i # j => l[i] # l[j]} :
           n \in 0..MaxEntries}

BuildInit ==
    /\ patterns = <<>>
    /\ MatcherIdle
    /\ files = <<>>
    /\ instructions = <<>>
    /\ numCPU = 1
    /\ GenIdle
    /\ disk = EntryPool
    /\ filters = NoFilters
    /\ ScanIdle
    /\ heap \in {[i \in DOMAIN l |-> NewFileInfo(EntryPool, l[i])] :
                    l \in FlatLists}
    /\ flat = [i \in DOMAIN heap |-> i]
    /\ built = <<>>
    /\ bpc = "ready"
    /\ TreeIdle
    /\ count = 0
    /\ FormatIdle
    /\ UiIdle
    /\ AppIdle

BuildFileTreeCall ==
    /\ bpc = "ready"
    /\ \E t \in BuildFileTree(heap, flat) :
          /\ heap' = t.heap
          /\ built' = t.root
    /\ bpc' = "returned"
    /\ UNCHANGED <<nvars, mvars, gvars, svars, flat, tvars, fvars>>

BuildNext == BuildFileTreeCall

BuildSpec == BuildInit /\ [][BuildNext]_vars

(***************************************************************************)
(* FileTreeWidget: LoadDirectory and loadChildren                          *)
(***************************************************************************)
\* The filters LoadDirectory is given: the application passes
\* RespectGitignore alone; an extension allow-list is added to it.
TreeFilters ==
    [Extensions : ExtensionLists,
     NamePattern : {<<>>},
     IgnorePatterns : {<<>>},
     SubPath : {<<>>},
     RespectGitignore : BOOLEAN]

TreeInit ==
    /\ patterns = <<>>
    /\ MatcherIdle
    /\ files = <<>>
    /\ instructions = <<>>
    /\ numCPU = 1
    /\ GenIdle
    /\ disk \in Disks
    /\ filters \in TreeFilters
    /\ ScanIdle
    /\ heap = <<>>
    /\ BuildIdle
    /\ TreeIdle
    /\ count = 0
    /\ FormatIdle
    /\ UiIdle
    /\ AppIdle

\* The indices of n entries allocated at the end of a heap h.
Fresh(h, n) == [i \in 1..n |-> Len(h) + i]

AttachChildrenMut(h, d, children) ==
    [h EXCEPT ![d].Children = children \o children]

\* dir.Children = children
AttachChildren(h, d, children) == [h EXCEPT ![d].Children = children]

\* LoadDirectory(CurrentDir, filters): on an error of ListFiles nothing but
\* the returned error changes; otherwise the listed entries are allocated,
\* built into a tree that becomes t.files, and every root directory has
\* its token count calculated.
LoadDirectory ==
    /\ tpc = "new"
    /\ LET r == ListFiles(disk, CurrentDir, filters)
       IN IF r.err # Nil
          THEN /\ loadErr' = r.err
               /\ tpc' = "failed"
               /\ UNCHANGED <<heap, treeFiles>>
          ELSE /\ \E t \in BuildFileTree(heap \o r.result,
                                         Fresh(heap, Len(r.result))) :
                      /\ heap' = CalculateEach(t.heap, t.root, 1)
                      /\ treeFiles' = t.root
               /\ loadErr' = Nil
               /\ tpc' = "loaded"
    /\ UNCHANGED <<nvars, mvars, gvars, svars, flat, built, bpc, loadedDirs, fvars>>

\* Lines 226-241: loadChildren lists the parent directory of dir with
\* SubPath set to the base name of dir.  The entries are absolute paths, so
\* dirPath is dir.Path.
ChildScan(h, d) ==
    ListFiles(disk, Dir(h[d].Path),
              [filters EXCEPT !.SubPath = Base(h[d].Path)])

\* loadChildren(dir) as a function of the heap: the heaps it can leave.
\* Nothing changes for a file entry or when ListFiles fails; otherwise the
\* listed entries are allocated, built into a tree whose roots become
\* dir.Children, and the token counts are calculated.
LoadedHeaps(h, d) ==
    IF ~h[d].IsDir \/ ChildScan(h, d).err # Nil
    THEN {h}
    ELSE LET r == ChildScan(h, d)
         IN {CalculateDirectoryTokenCount(
                 CalculateEach(AttachChildren(t.heap, d, t.root), t.root, 1),
                 d).heap :
               t \in BuildFileTree(h \o r.result, Fresh(h, Len(r.result)))}

\* loadChildren(dir) for a directory entry without children, which is how
\* toggleExpand calls it.
loadChildren(d) ==
    /\ tpc = "loaded"
    /\ heap[d].IsDir
    /\ Len(heap[d].Children) = 0
    /\ Cardinality(loadedDirs) < MaxExpand
    /\ heap' \in LoadedHeaps(heap, d)
    /\ loadedDirs' = IF ChildScan(heap, d).err # Nil THEN loadedDirs
                     ELSE loadedDirs \cup {d}
    /\ UNCHANGED <<nvars, mvars, gvars, svars, flat, built, bpc, treeFiles,
                   loadErr, tpc, fvars>>

TreeNext ==
    \/ LoadDirectory
    \/ \E d \in DOMAIN heap : loadChildren(d)

TreeSpec == TreeInit /\ [][TreeNext]_vars

(***************************************************************************)
(* FormatTokenCount as a call                                              *)
(***************************************************************************)
\* Counts beyond MaxCount, at and around the two thresholds and the
\* halfway points of the rounding.
LargeCounts ==
    {1234, 1250, 1349, 1350, 1450, 1750, 9999, 99949, 99950, 999949,
     999950, 999999, 1000000, 1000001, 1049999, 1050000, 1234567, 1250000,
     99999999}

Counts == 0..MaxCount \cup LargeCounts

FormatInit ==
    /\ patterns = <<>>
    /\ MatcherIdle
    /\ files = <<>>
    /\ instructions = <<>>
    /\ numCPU = 1
    /\ GenIdle
    /\ disk = NoDisk
    /\ filters = NoFilters
    /\ ScanIdle
    /\ heap = <<>>
    /\ BuildIdle
    /\ TreeIdle
    /\ count \in Counts
    /\ FormatIdle
    /\ UiIdle
    /\ AppIdle

FormatTokenCountCall ==
    /\ fpc = "ready"
    /\ \E s \in FormatTokenCount(count) : formatted' = s
    /\ fpc' = "returned"
    /\ UNCHANGED <<nvars, mvars, gvars, svars, bvars, tvars, count>>

FormatNext == FormatTokenCountCall

FormatSpec == FormatInit /\ [][FormatNext]_vars

(***************************************************************************)
(* App.generateAndCopy.  Each press of the button is a run; a run with a   *)
(* selection starts a goroutine that calls GenerateXML, stores the         *)
(* document in App.xmlPrompt and copies that field to the clipboard.       *)
(***************************************************************************)
\* What a GenerateXML call can hand back: a document and the last error.
GenReturns ==
    [xml : {Marshal([Files |-> fs, Instructions |-> <<"i">>]) :
               fs \in {<<>>, <<[Path |-> <<"e">>, Type |-> <<>>,
                                Content |-> <<"e">>]>>}},
     err : {Nil, <<"error reading file", <<"/", "r", "/", "d", "/", "b">>>>}]

NewRun(pc) == [pc |-> pc, xml |-> <<>>, err |-> Nil, copies |-> 0]

AppInit ==
    /\ patterns = <<>>
    /\ MatcherIdle
    /\ files = <<>>
    /\ instructions = <<>>
    /\ numCPU = 1
    /\ GenIdle
    /\ OthersIdle

\* Lines 691-702: GetSelectedFiles; without a selection a dialog is shown
\* and the run ends, otherwise the goroutine is started.
GenerateAndCopy ==
    /\ Len(runs) < MaxRuns
    /\ \E empty \in BOOLEAN :
          runs' = Append(runs, NewRun(IF empty THEN "noFiles" ELSE "generate"))
    /\ UNCHANGED <<mvars, gvars, svars, bvars, tvars, fvars, uvars,
                   xmlPrompt, clipboard>>

\* Line 705: GenerateXML returns.
RunGenerate(r) ==
    /\ runs[r].pc = "generate"
    /\ \E out \in GenReturns :
          runs' = [runs EXCEPT ![r].xml = out.xml, ![r].err = out.err,
                               ![r].pc = "store"]
    /\ UNCHANGED <<mvars, gvars, svars, bvars, tvars, fvars, uvars,
                   xmlPrompt, clipboard>>

\* Lines 708-717: a.xmlPrompt = xmlPrompt, then the progress dialog is
\* completed and hidden.
RunStore(r) ==
    /\ runs[r].pc = "store"
    /\ xmlPrompt' = runs[r].xml
    /\ runs' = [runs EXCEPT ![r].pc = "branch"]
    /\ UNCHANGED <<mvars, gvars, svars, bvars, tvars, fvars, uvars,
                   clipboard>>

FailedMut(err) == FALSE

\* Line 720: if err != nil
Failed(err) == err # Nil

\* Lines 720-727: GenerateXML failed; notify and return.
RunNotify(r) ==
    /\ runs[r].pc = "branch"
    /\ Failed(runs[r].err)
    /\ runs' = [runs EXCEPT ![r].pc = "notified"]
    /\ UNCHANGED <<mvars, gvars, svars, bvars, tvars, fvars, uvars,
                   xmlPrompt, clipboard>>

\* Lines 730-743 and CopyToClipboard: clipboard.WriteAll(a.xmlPrompt)
\* writes the field or fails.
RunCopy(r) ==
    /\ runs[r].pc = "branch"
    /\ ~Failed(runs[r].err)
    /\ \E ok \in BOOLEAN :
          IF ok
          THEN /\ clipboard' = xmlPrompt
               /\ runs' = [runs EXCEPT ![r].pc = "copied",
                                       ![r].copies = @ + 1]
          ELSE /\ UNCHANGED clipboard
               /\ runs' = [runs EXCEPT ![r].pc = "copyFailed",
                                       ![r].copies = @ + 1]
    /\ UNCHANGED <<mvars, gvars, svars, bvars, tvars, fvars, uvars,
                   xmlPrompt>>

AppNext ==
    \/ GenerateAndCopy
    \/ \E r \in DOMAIN runs :
          \/ RunGenerate(r)
          \/ RunStore(r)
          \/ RunNotify(r)
          \/ RunCopy(r)

AppSpec == AppInit /\ [][AppNext]_vars

(***************************************************************************)
(* Selection.  The tree is shown as LoadDirectory leaves it, no directory  *)
(* expanded, so the check boxes are those of the root entries              *)
(* (addFileToUI shows the children of expanded directories only).  Every   *)
(* handler and goroutine runs a call as one step.                          *)
(***************************************************************************)
\* Lines 638-641: the filters applyFilters loads the directory with.
AppFilters == [NoFilters EXCEPT !.RespectGitignore = TRUE]

SelectInit ==
    /\ patterns = <<>>
    /\ MatcherIdle
    /\ files = <<>>
    /\ instructions = <<>>
    /\ numCPU = 1
    /\ GenIdle
    /\ disk \in Disks
    /\ filters = AppFilters
    /\ ScanIdle
    /\ heap = <<>>
    /\ BuildIdle
    /\ TreeIdle
    /\ count = 0
    /\ FormatIdle
    /\ UiIdle
    /\ AppIdle

\* t.checkboxes: the entries that have a check box, by path.
BoxFiles == SeqRange(treeFiles)

HasBox(p) == \E id \in BoxFiles : heap[id].Path = p

BoxFile(p) == CHOOSE id \in BoxFiles : heap[id].Path = p

NewTask(f, v, pc) == [file |-> f, checked |-> v, pc |-> pc]

SetSelected(h, ids, v) ==
    [i \in DOMAIN h |-> IF i \in ids THEN [h[i] EXCEPT !.Selected = v]
                        ELSE h[i]]

Kids(h, f) == SeqRange(h[f].Children)

\* Lines 298-323: the entries toggleSelection assigns Selected to: the
\* entry, its children, and the children of its child directories.
Toggled(h, f) ==
    IF h[f].IsDir
    THEN {f} \cup Kids(h, f) \cup UNION {Kids(h, c) : c \in Kids(h, f)}
    ELSE {f}

\* The check boxes SetChecked(v) changes among those of the entries ids:
\* the ones found by path whose state is not v.  A changed check box runs
\* its OnChanged handler.
Flipped(h, ids, v) ==
    {p \in {h[i].Path : i \in ids} : HasBox(p) /\ ((p \in checkedBoxes) # v)}

\* Lines 106-133: the tasks the OnChanged handlers of the check boxes at
\* paths ps start: one goroutine per directory.
RECURSIVE Started(_, _, _)
Started(h, ps, v) ==
    IF ps = {} THEN <<>>
    ELSE LET p == CHOOSE q \in ps : \A o \in ps : StringLess(q, o) \/ q = o
         IN (IF h[BoxFile(p)].IsDir
             THEN <<NewTask(BoxFile(p), v, "start")>> ELSE <<>>)
            \o Started(h, ps \ {p}, v)

\* Lines 106-133: the user changes the check box of a root entry.
CheckChanged(f) ==
    /\ tpc = "loaded"
    /\ clicks < MaxClicks
    /\ f \in BoxFiles
    /\ LET p == heap[f].Path
           v == p \notin checkedBoxes
       IN /\ checkedBoxes' = IF v THEN checkedBoxes \cup {p}
                             ELSE checkedBoxes \ {p}
          /\ heap' = SetSelected(heap, {f}, v)
          /\ tasks' = tasks \o Started(heap, {p}, v)
          /\ Len(tasks') <= MaxTasks
    /\ clicks' = clicks + 1
    /\ UNCHANGED <<mvars, gvars, svars, flat, built, bpc, tvars, fvars,
                   picked, avars>>

\* A goroutine runs loadChildren.  Lines 113-116: the goroutine of the
\* handler loads the children of a directory being selected that has none,
\* then goes on to toggleSelection.  Lines 300-304: the goroutine
\* toggleSelection started loads the children and ends.
TaskLoad(k) ==
    /\ tasks[k].pc \in {"start", "load"}
    /\ IF \/ tasks[k].pc = "load"
          \/ tasks[k].checked /\ Len(heap[tasks[k].file].Children) = 0
       THEN heap' \in LoadedHeaps(heap, tasks[k].file)
       ELSE UNCHANGED heap
    /\ tasks' = [tasks EXCEPT ![k].pc = IF @ = "start" THEN "toggle"
                                        ELSE "done"]
    /\ UNCHANGED <<mvars, gvars, svars, flat, built, bpc, tvars, fvars,
                   clicks, picked, checkedBoxes, avars>>

\* Lines 119 and 284-326: toggleSelection(file, checked).  Selected is
\* assigned, the check boxes found by path are set, which runs the handler
\* of each one that changes, and a directory being selected that still has
\* no children gets a goroutine that loads them.
TaskToggle(k) ==
    /\ tasks[k].pc = "toggle"
    /\ LET f == tasks[k].file
           v == tasks[k].checked
           ids == Toggled(heap, f)
           ps == Flipped(heap, ids, v)
           handled == {BoxFile(p) : p \in ps}
           loader == IF heap[f].IsDir /\ v /\ Len(heap[f].Children) = 0
                     THEN <<NewTask(f, v, "load")>> ELSE <<>>
       IN /\ heap' = SetSelected(heap, ids \cup handled, v)
          /\ checkedBoxes' = IF v THEN checkedBoxes \cup ps
                             ELSE checkedBoxes \ ps
          /\ tasks' = [tasks EXCEPT ![k].pc = "done"]
                         \o Started(heap, ps, v) \o loader
          /\ Len(tasks') <= MaxTasks
    /\ UNCHANGED <<mvars, gvars, svars, flat, built, bpc, tvars, fvars,
                   clicks, picked, avars>>

\* Lines 336-353: collectSelectedFiles over the entries fs, with the list
\* sel collected so far: the set of [heap, selected] it can end with.  A
\* selected directory without children is loaded first; every selected
\* entry is appended; the children of a directory are visited.
RECURSIVE collectSelectedFiles(_, _, _)
collectSelectedFiles(h, fs, sel) ==
    IF fs = <<>> THEN {[heap |-> h, selected |-> sel]}
    ELSE LET f == Head(fs)
             afterLoad ==
                 IF h[f].Selected /\ h[f].IsDir /\ Len(h[f].Children) = 0
                 THEN LoadedHeaps(h, f) ELSE {h}
             Inner(h1) ==
                 LET sel1 == IF h1[f].Selected THEN Append(sel, f) ELSE sel
                 IN IF h1[f].IsDir
                    THEN collectSelectedFiles(h1, h1[f].Children, sel1)
                    ELSE {[heap |-> h1, selected |-> sel1]}
         IN UNION {UNION {collectSelectedFiles(r.heap, Tail(fs), r.selected) :
                             r \in Inner(h1)} :
                      h1 \in afterLoad}

\* Lines 329-333: GetSelectedFiles().
GetSelectedFiles ==
    /\ tpc = "loaded"
    /\ \E r \in collectSelectedFiles(heap, treeFiles, <<>>) :
          /\ heap' = r.heap
          /\ picked' = r.selected
    /\ UNCHANGED <<mvars, gvars, svars, flat, built, bpc, tvars, fvars,
                   clicks, tasks, checkedBoxes, avars>>

SelectNext ==
    \/ LoadDirectory
    \/ \E f \in DOMAIN heap : CheckChanged(f)
    \/ \E k \in DOMAIN tasks :
          \/ TaskLoad(k)
          \/ TaskToggle(k)
    \/ GetSelectedFiles

SelectSpec == SelectInit /\ [][SelectNext]_vars

(***************************************************************************)
(* Properties of shouldIgnore                                              *)
(***************************************************************************)
Segments(p) == {Split(p)[i] : i \in DOMAIN Split(p)}

Returned == mpc = "returned"

SingleRule == Returned /\ Len(patterns) = 1

\* A line that is neither negated nor directory-only.
IsPlainRule(line) ==
    /\ line # <<>>
    /\ line[1] # "!"
    /\ line[Len(line)] # "/"

HasMeta(line) == \E i \in DOMAIN line : line[i] \in {"*", "?", "["}

HasSlash(line) == \E i \in DOMAIN line : line[i] = "/"

\* C1: a single plain pattern without glob metacharacter and without '/'
\* excludes a path if and only if it equals one of the path's segments
\* (the final one included).
C1_LiteralMatchesAnySegment ==
    (/\ SingleRule
     /\ IsPlainRule(patterns[1])
     /\ ~HasMeta(patterns[1])
     /\ ~HasSlash(patterns[1]))
    => (ignored <=> patterns[1] \in Segments(path))

\* The rule at index i decides for the candidate (it matches it).
RuleApplies(i) == RuleMatches(patterns[i], path, isDir)

Applying == {i \in DOMAIN patterns : RuleApplies(i)}

LastApplying == CHOOSE i \in Applying : \A k \in Applying : k <= i

\* C2: the verdict is that of the last rule of the list that matches the
\* path: excluded if that rule is not negated, included if it is negated or
\* if no rule matches.
C2_LastRuleWins ==
    Returned =>
        (ignored <=> (Applying # {} /\ patterns[LastApplying][1] # "!"))

IsDirOnlyLine(line) == line # <<>> /\ line[Len(line)] = "/"

KeepRule(line) == ~IsDirOnlyLine(line)

WithoutDirOnly(lines) == SelectSeq(lines, KeepRule)

\* C3: for a file candidate the verdict is the one the rule list gives once
\* every directory-only rule is removed from it.
C3_DirOnlySkipsFiles ==
    (Returned /\ ~isDir)
    => (ignored = shouldIgnore(WithoutDirOnly(patterns), path, FALSE))

\* A file named exactly like the pattern of a directory-only rule, with no
\* other rule in the list, was queried and left included.
C3_Witness ==
    /\ SingleRule
    /\ ~isDir
    /\ IsDirOnlyLine(patterns[1])
    /\ patterns[1][1] # "!"
    /\ PatternOf(patterns[1]) = path
    /\ ~ignored

IsDoubleStarPrefixLine(line) ==
    /\ Len(line) > 3
    /\ line[1] # "!"
    /\ SubSeq(line, Len(line) - 2, Len(line)) = <<"/", "*", "*">>

PrefixOf(line) == SubSeq(line, 1, Len(line) - 3)

\* C4: the single, non-negated rule <prefix>/** excludes the path equal to
\* prefix and every path that starts with prefix followed by '/'.
C4_DoubleStarPrefix ==
    (/\ SingleRule
     /\ IsDoubleStarPrefixLine(patterns[1])
     /\ \/ path = PrefixOf(patterns[1])
        \/ HasPrefix(path, PrefixOf(patterns[1]) \o <<"/">>))
    => ignored

\* A path two levels below the prefix of a <prefix>/** rule was excluded.
C4_Witness ==
    /\ SingleRule
    /\ IsDoubleStarPrefixLine(patterns[1])
    /\ HasPrefix(path, PrefixOf(patterns[1]) \o <<"/">>)
    /\ Len(Split(path)) >= Len(Split(PrefixOf(patterns[1]))) + 2
    /\ ignored

\* C5: a single plain pattern with a '/' and without '**' matches exactly
\* the path equal to it and the paths that start with it followed by '/'.
C5_AnchoredWholeSegments ==
    (/\ SingleRule
     /\ IsPlainRule(patterns[1])
     /\ HasSlash(patterns[1])
     /\ ~Contains(patterns[1], <<"*", "*">>))
    => (ignored <=> (\/ path = patterns[1]
                     \/ HasPrefix(path, patterns[1] \o <<"/">>)))

IsDoubleStarSuffixLine(line) ==
    /\ Len(line) > 3
    /\ line[Len(line)] # "/"
    /\ SubSeq(line, 1, 3) = <<"*", "*", "/">>

SuffixOf(line) == SubSeq(line, 4, Len(line))

\* C6: the single rule **/<suffix> excludes the path equal to suffix, every
\* path ending with '/' followed by suffix, and every path whose final
\* segment the suffix matches as a glob.
C6_DoubleStarSuffix ==
    (/\ SingleRule
     /\ IsDoubleStarSuffixLine(patterns[1])
     /\ \/ path = SuffixOf(patterns[1])
        \/ HasSuffix(path, <<"/">> \o SuffixOf(patterns[1]))
        \/ Match(SuffixOf(patterns[1]), Base(path)))
    => ignored

\* C7: a single plain pattern with a glob metacharacter and without '/'
\* excludes every path whose final segment, or any segment, it matches as a
\* glob.
C7_GlobMatchesAnySegment ==
    (/\ SingleRule
     /\ IsPlainRule(patterns[1])
     /\ HasMeta(patterns[1])
     /\ ~HasSlash(patterns[1])
     /\ \/ Match(patterns[1], Base(path))
        \/ \E seg \in Segments(path) : Match(patterns[1], seg))
    => ignored

(***************************************************************************)
(* Properties of GenerateXML                                               *)
(***************************************************************************)
GenReturned == ret.done

DocFiles == ret.xml[2].Files

DocInstructions == ret.xml[2].Instructions

FileEntries == {i \in DOMAIN files : ~files[i].IsDir}

\* The path of entry i relative to the base directory it was listed under.
RelOfEntry(i) ==
    RelPool[CHOOSE k \in DOMAIN RelPool :
                Join(BaseDir, RelPool[k].rel) = files[i].Path].rel

\* The document holds exactly one record for entry i, with its relative
\* path and the content on disk.
HasRecord(i) ==
    Cardinality({k \in DOMAIN DocFiles :
                    /\ DocFiles[k].Path = RelOfEntry(i)
                    /\ DocFiles[k].Content = DiskContent(files[i].Path)}) = 1

NoReadFailure == \A i \in FileEntries : fate[i] # "failed"

\* Entry i is one the workers drop before reading: a .DS_Store file or a
\* file the base directory's .gitignore matches.
Droppable(i) ==
    \/ HasSuffix(RelOfEntry(i), DSStore)
    \/ files[i].kind = "ignored"

NoneDroppable == \A i \in FileEntries : ~Droppable(i)

Complete ==
    /\ Len(DocFiles) = Cardinality(FileEntries)
    /\ \A i \in FileEntries : HasRecord(i)
    /\ ret.err = Nil

\* C8 as stated: with no read failure the returned document holds exactly
\* one record per selected file entry and the error is nil.
C8_AllRecords ==
    (GenReturned /\ FileEntries # {} /\ NoReadFailure) => Complete

\* C8 amended: with no read failure, and no selected file that is a
\* .DS_Store file or matched by the base directory's .gitignore, the
\* returned document holds exactly one record per selected file entry, with
\* its relative path and content, and the error is nil.
C8_AllRecordsOfKeptFiles ==
    (GenReturned /\ FileEntries # {} /\ NoReadFailure /\ NoneDroppable)
    => Complete

\* Two or more files were all recorded, in an order other than the order of
\* the selection.
C8_Witness ==
    /\ GenReturned
    /\ Cardinality(FileEntries) >= 2
    /\ NoReadFailure
    /\ NoneDroppable
    /\ Complete
    /\ \E i \in FileEntries :
          /\ \A k \in FileEntries : i <= k
          /\ DocFiles[1].Path # RelOfEntry(i)

Gone == {i \in FileEntries : files[i].kind = "gone"}

ErrorIffFailure == (ret.err # Nil) <=> (\E i \in FileEntries : fate[i] = "failed")

PartialSuccess ==
    /\ \A i \in FileEntries : fate[i] = "read" => HasRecord(i)
    /\ Len(DocFiles) = Cardinality({i \in FileEntries : fate[i] = "read"})

OneShort ==
    /\ Len(DocFiles) = Cardinality(FileEntries) - 1
    /\ ret.err # Nil

\* C9 as stated: the error is non-nil iff a read failed, every file read
\* is in the document, and with exactly one file deleted the document has
\* N-1 records and the error is non-nil.
C9_PartialSuccess ==
    GenReturned =>
        /\ ErrorIffFailure
        /\ PartialSuccess
        /\ (Cardinality(Gone) = 1 => OneShort)

\* C9 amended: the error is non-nil iff a read failed, every file read is
\* in the document, and with exactly one file deleted and no selected file
\* that is a .DS_Store file or matched by .gitignore the document has N-1
\* records and the error is non-nil.
C9_PartialSuccessOfKeptFiles ==
    GenReturned =>
        /\ ErrorIffFailure
        /\ PartialSuccess
        /\ ((Cardinality(Gone) = 1 /\ NoneDroppable) => OneShort)

\* One of at least two files was deleted; the call returned the other
\* records together with an error.
C9_Witness ==
    /\ GenReturned
    /\ Cardinality(Gone) = 1
    /\ NoneDroppable
    /\ Len(DocFiles) >= 1
    /\ ret.err # Nil
    /\ \E i \in Gone : ret.err = <<"error reading file", files[i].Path>>

\* C10: a selection without file entries yields the document with no file
\* record and the given instructions, a nil error, and no worker is ever
\* started.
C10_EmptySelection ==
    (FileEntries = {}) =>
        /\ \A w \in Workers : wpc[w] = "none"
        /\ wg = 0
        /\ cpc = "none"
        /\ gpc \in {"entry", "returned"}
        /\ GenReturned =>
              /\ ret.xml = <<XMLHeader, [Files |-> <<>>,
                                         Instructions |-> instructions]>>
              /\ ret.err = Nil

\* A selection of directories only, with instructions, has returned.
C10_Witness ==
    /\ GenReturned
    /\ files # <<>>
    /\ FileEntries = {}
    /\ DocFiles = <<>>
    /\ DocInstructions = instructions
    /\ instructions # <<>>

(***************************************************************************)
(* Properties of BuildFileTree                                             *)
(***************************************************************************)
Built == bpc = "returned"

\* Every entry met by descending from a list of entries through Children,
\* parents before children.
RECURSIVE Flatten(_, _)
Flatten(h, ids) ==
    IF ids = <<>> THEN <<>>
    ELSE <<Head(ids)>> \o Flatten(h, h[Head(ids)].Children)
                       \o Flatten(h, Tail(ids))

\* C11: building the tree of a flat entry list and flattening the roots
\* through their Children gives back every entry of the list exactly once.
C11_TreeRoundTrip ==
    Built =>
        LET all == Flatten(heap, built)
        IN /\ SeqRange(all) = SeqRange(flat)
           /\ Len(all) = Len(flat)

\* A list whose tree has a file among several roots and a directory with
\* children.
C11_Witness ==
    /\ Built
    /\ Len(built) >= 2
    /\ \E k \in DOMAIN built : ~heap[built[k]].IsDir
    /\ \E id \in DOMAIN heap : Len(heap[id].Children) >= 2

\* Directories before files, and names ascending within each kind.
DirectoriesFirst(group) ==
    \A i, j \in DOMAIN group :
        i < j =>
            LET a == heap[group[i]]
                b == heap[group[j]]
            IN IF a.IsDir # b.IsDir THEN a.IsDir
               ELSE ~StringLess(b.Name, a.Name)

\* C12: after BuildFileTree the root list and the Children of every
\* directory have all directories before all files and, within each kind,
\* names in ascending byte order.
C12_SiblingsSorted ==
    Built =>
        /\ DirectoriesFirst(built)
        /\ \A id \in DOMAIN heap : DirectoriesFirst(heap[id].Children)

\* The list held a file before a directory, and two names out of order,
\* that are siblings in the tree.
C12_Witness ==
    /\ Built
    /\ \E i, j \in DOMAIN built :
          /\ heap[built[i]].IsDir
          /\ ~heap[built[j]].IsDir
          /\ built[j] < built[i]
    /\ \E id \in DOMAIN heap :
          \E i, j \in DOMAIN heap[id].Children :
              /\ i < j
              /\ heap[id].Children[j] < heap[id].Children[i]

(***************************************************************************)
(* Properties of ListFiles                                                 *)
(***************************************************************************)
Scanned == spc = "returned"

\* The directory the walk starts from.
ScanDir ==
    IF filters.SubPath # <<>> THEN Join(CurrentDir, filters.SubPath)
    ELSE CurrentDir

\* The rule lines ListFiles loads for the walk.
ScanRules == newGitignorePatterns(disk, ScanDir).patterns

ListedPaths == {listed.result[i].Path : i \in DOMAIN listed.result}

OnDisk == disk.dirs \cup disk.files

Beneath(p, q) == HasPrefix(q, p \o <<Separator>>)

\* q and the directories between the scan root and q, the root left out.
ChainBelowRoot(q) ==
    {p \in OnDisk : Beneath(ScanDir, p) /\ (p = q \/ Beneath(p, q))}

\* C13: when the scan root is missing or cannot be read, ListFiles returns
\* a non-nil error and no entries.
C13_RootFailureIsFatal ==
    (/\ Scanned
     /\ (ScanDir \notin disk.dirs \/ ScanDir \in disk.noRead))
    => (listed.err # Nil /\ listed.result = <<>>)

\* The verdict of the ignore-file rules on a relative path: a lone literal
\* rule, with neither metacharacter nor '/', excludes every path one of
\* whose segments it equals; any other rule list excludes what
\* shouldIgnore says.
RulesExclude(rules, rel, d) ==
    IF /\ Len(rules) = 1
       /\ IsPlainRule(rules[1])
       /\ ~HasMeta(rules[1])
       /\ ~HasSlash(rules[1])
    THEN rules[1] \in Segments(rel)
    ELSE shouldIgnore(rules, rel, d)

GlobExcludes(name) ==
    \E i \in DOMAIN filters.IgnorePatterns :
        Match(filters.IgnorePatterns[i], name)

\* C15: no listed entry, and no directory above a listed entry, has a base
\* name matched by an explicit ignore glob or, with ignore-file filtering
\* on, a path relative to the scan root that the ignore-file rules exclude.
C15_NoExcludedEntry ==
    Scanned =>
        \A q \in ListedPaths :
            /\ ~GlobExcludes(Base(ScanDir))
            /\ \A p \in ChainBelowRoot(q) :
                  /\ ~GlobExcludes(Base(p))
                  /\ filters.RespectGitignore =>
                        ~RulesExclude(ScanRules, Rel(ScanDir, p),
                                      p \in disk.dirs)

\* The entries the walk hands to the callback without an error when
\* nothing is pruned: those at or below the scan root with every directory
\* from the root down to them readable.
Candidates ==
    {q \in OnDisk :
        /\ q = ScanDir \/ Beneath(ScanDir, q)
        /\ \A p \in ChainBelowRoot(q) \cup {ScanDir} :
              p \in disk.dirs => p \notin disk.noRead}

\* The callback prunes p.
PrunedAt(p) ==
    \/ IgnoredByFile(filters, ScanRules, ScanDir, p, p \in disk.dirs)
    \/ IgnoredByGlob(filters, Base(p))

NotPruned(q) == \A p \in ChainBelowRoot(q) \cup {ScanDir} : ~PrunedAt(p)

InAllowList(q) ==
    \/ filters.Extensions = <<>>
    \/ \E i \in DOMAIN filters.Extensions :
          Ext(q) = <<".">> \o filters.Extensions[i]

MatchesNameGlob(q) ==
    \/ filters.NamePattern = <<>>
    \/ Match(filters.NamePattern, Base(q))

\* C16: of the entries no ignore rule prunes, every directory is listed,
\* and a file is listed exactly when the allow-list is empty or holds its
\* extension without the dot, and the name glob is empty or matches its
\* base name.
C16_FiltersTouchFilesOnly ==
    (Scanned /\ listed.err = Nil) =>
        \A q \in Candidates :
            NotPruned(q) =>
                IF q \in disk.dirs THEN q \in ListedPaths
                ELSE q \in ListedPaths
                        <=> (InAllowList(q) /\ MatchesNameGlob(q))

\* A listed directory none of whose files is listed, next to a listed file,
\* under an allow-list and a name glob.
C16_Witness ==
    /\ Scanned
    /\ filters.Extensions # <<>>
    /\ filters.NamePattern # <<>>
    /\ \E q \in ListedPaths \cap disk.dirs :
          /\ q # ScanDir
          /\ \E r \in disk.files : Dir(r) = q
          /\ \A r \in disk.files : Beneath(q, r) => r \notin ListedPaths
    /\ \E r \in ListedPaths \cap disk.files : NotPruned(r)

(***************************************************************************)
(* Malformed globs                                                         *)
(***************************************************************************)
\* The glob has a character class that is never closed or is empty, which
\* filepath.Match reports as ErrBadPattern.
RECURSIVE MalformedFrom(_, _)
MalformedFrom(glob, i) ==
    IF i > Len(glob) THEN FALSE
    ELSE IF glob[i] = "["
    THEN LET close == ClassClose(glob, i + 1, 0)
         IN IF close = 0 THEN TRUE ELSE MalformedFrom(glob, close + 1)
    ELSE MalformedFrom(glob, i + 1)

IsMalformed(glob) == MalformedFrom(glob, 1)

WellFormedRule(line) == ~IsMalformed(PatternOf(line))

WithoutMalformed == SelectSeq(patterns, WellFormedRule)

\* C14: a malformed line of the ignore file matches nothing; the verdict
\* on every path is the one the rule list gives without its malformed
\* lines.
C14_MalformedLineMatchesNothing ==
    Returned =>
        ignored = shouldIgnore(WithoutMalformed, path, isDir)

(***************************************************************************)
(* Properties of the file tree                                             *)
(***************************************************************************)
Loaded == tpc = "loaded"

\* The sum of the token counts of the files beneath an entry.
RECURSIVE TokensBeneath(_)
TokensBeneath(id) ==
    LET RECURSIVE Sum(_, _)
        Sum(children, i) ==
            IF i > Len(children) THEN 0
            ELSE (IF heap[children[i]].IsDir
                  THEN TokensBeneath(children[i])
                  ELSE heap[children[i]].TokenCount)
                 + Sum(children, i + 1)
    IN Sum(heap[id].Children, 1)

InTree == SeqRange(Flatten(heap, treeFiles))

\* C17: after LoadDirectory and after any lazy expansions, the TokenCount
\* of every directory of the tree is the sum of the TokenCounts of the
\* files beneath it.
C17_DirectoryTokensAreSums ==
    Loaded =>
        \A id \in InTree :
            heap[id].IsDir => heap[id].TokenCount = TokensBeneath(id)

\* How often an entry occurs as a root or as a child.
Occurrences(id) ==
    Cardinality({k \in DOMAIN treeFiles : treeFiles[k] = id})
    + Cardinality(UNION {{<<p, k>> :
                             k \in {j \in DOMAIN heap[p].Children :
                                       heap[p].Children[j] = id}} :
                         p \in DOMAIN heap})

\* The entries reached from an entry in one to n steps through Children.
RECURSIVE Descendants(_, _)
Descendants(ids, n) ==
    LET below == UNION {SeqRange(heap[id].Children) : id \in ids}
    IN IF n = 0 \/ below = {} THEN {}
       ELSE below \cup Descendants(below, n - 1)

\* C18: the entries form a forest: every entry is a root or a child, of one
\* parent and once only, and no entry is beneath itself.
C18_Forest ==
    Loaded =>
        \A id \in DOMAIN heap :
            /\ Occurrences(id) = 1
            /\ id \notin Descendants({id}, Len(heap))

\* A tree in which two expansions have attached entries, one of them
\* beneath the other.
C18_Witness ==
    /\ Loaded
    /\ \E d, e \in loadedDirs :
          /\ d # e
          /\ e \in Descendants({d}, Len(heap))
          /\ Len(heap[e].Children) > 0

\* The paths the scan of the root lists.
RootScan ==
    LET r == ListFiles(disk, CurrentDir, filters).result
    IN {r[i].Path : i \in DOMAIN r}

\* C19: what an expansion of D attaches beneath D is what the scan of the
\* root, with the rules of the root's ignore file matched against paths
\* relative to the root, lists beneath D.
C19_ExpansionUsesRootRules ==
    Loaded =>
        \A d \in loadedDirs :
            {heap[id].Path : id \in Descendants({d}, Len(heap))}
                \ {heap[d].Path}
            = {q \in RootScan : Beneath(heap[d].Path, q)}

(***************************************************************************)
(* Properties of FormatTokenCount                                          *)
(***************************************************************************)
Formatted == fpc = "returned"

\* s is count/unit written with one decimal digit, a tenth nearest to the
\* quotient, followed by the suffix.
IsOneDecimalOf(s, unit, suffix) ==
    \E t \in 0..((count * 10) \div unit + 1) :
        /\ s = Decimal(t \div 10) \o <<".">> \o Decimal(t % 10) \o <<suffix>>
        /\ 2 * (count * 10 - t * unit) <= unit
        /\ 2 * (t * unit - count * 10) <= unit

\* C20: FormatTokenCount gives the plain decimal number below 1,000;
\* n/1000 with one decimal digit and K from 1,000 up to 999,999, 1234
\* giving 1.2K; and n/1000000 with one decimal digit and M from 1,000,000.
C20_FormatTokenCount ==
    Formatted =>
        /\ count < 1000 => formatted = Decimal(count)
        /\ (1000 <= count /\ count <= 999999) =>
              IsOneDecimalOf(formatted, 1000, "K")
        /\ count >= 1000000 => IsOneDecimalOf(formatted, 1000000, "M")
        /\ count = 1234 => formatted = <<"1", ".", "2", "K">>

\* 1000 itself, the first count written with K.
C20_Witness ==
    /\ Formatted
    /\ count = 1000
    /\ formatted = <<"1", ".", "0", "K">>

(***************************************************************************)
(* Properties of GenerateXML: the results queue                            *)
(***************************************************************************)
AllWorkersExited == \A w \in Workers : wpc[w] = "done"

\* A step that closes resultChan.
ClosesResults == resultClosed' /\ ~resultClosed

\* A step in which the closer runs close(resultChan).
CloserCloses == cpc = "wait" /\ cpc' = "done"

\* A step that sends on resultChan.
SendsResult == Len(resultChan') > Len(resultChan)

\* The results the workers have published so far.
Published ==
    {i \in FileEntries :
        /\ fate[i] \in {"read", "failed"}
        /\ \A w \in Workers : cur[w] = i => wpc[w] = "put"}

\* The collector has taken every published result: none is left in the
\* queue, every record published is in the list and a published error has
\* been seen.
AllReceived ==
    /\ resultChan = <<>>
    /\ Len(promptFiles) = Cardinality({i \in Published : fate[i] = "read"})
    /\ (lastError # Nil) <=> (\E i \in Published : fate[i] = "failed")
    /\ Published = {i \in FileEntries : fate[i] \in {"read", "failed"}}

\* C24: the results queue is closed exactly once and only after every
\* worker has exited, no worker sends on it after the close, and when the
\* call returns the collector has received every published result.
C24_ResultsClosedOnceAfterWorkers ==
    /\ [](resultClosed => AllWorkersExited)
    /\ []((GenReturned /\ FileEntries # {}) => (resultClosed /\ AllReceived))
    /\ [][/\ CloserCloses => ~resultClosed
          /\ resultClosed => resultClosed'
          /\ ClosesResults => CloserCloses
          /\ SendsResult => (~resultClosed /\ ~resultClosed')]_vars

\* The call returned after both a record and an error went through the
\* results queue, with more file entries than workers.
C24_Witness ==
    /\ GenReturned
    /\ resultClosed
    /\ Cardinality(FileEntries) > NumWorkers
    /\ \E i \in FileEntries : fate[i] = "read"
    /\ \E i \in FileEntries : fate[i] = "failed"

(***************************************************************************)
(* Properties of GenerateXML: the buffer pool                              *)
(***************************************************************************)
Buffers == 1..made

Holders(b) == {w \in Workers : buf[w] = b}

\* A step that puts a buffer at rest: the buffer is the one the worker
\* holds, it was not at rest, and the worker lets go of it.
PutsHeldBuffer ==
    \E w \in Workers :
        /\ buf[w] # 0
        /\ buf[w] \notin bufferPool
        /\ bufferPool' = bufferPool \cup {buf[w]}
        /\ buf'[w] = 0

\* A worker that has let go of its buffer has put it at rest in that step.
LetsGoByPut ==
    \A w \in Workers :
        (buf[w] # 0 /\ buf'[w] = 0) => buf[w] \in bufferPool'

\* C25: every buffer borrowed from the pool is put back exactly once, on
\* the success path and on the error path, no buffer is held by two
\* workers at once, and when the call returns no buffer is outstanding.
C25_BuffersReturnedOnce ==
    /\ [](\A b \in Buffers :
            /\ Cardinality(Holders(b)) <= 1
            /\ (b \in bufferPool) <=> (Holders(b) = {}))
    /\ [](\A w \in Workers : (buf[w] # 0) <=> (wpc[w] \in {"read", "sendOk", "put"}))
    /\ [](GenReturned => (bufferPool = Buffers /\ \A w \in Workers : buf[w] = 0))
    /\ [][/\ (bufferPool' # bufferPool /\ ~(bufferPool' \subseteq bufferPool))
             => PutsHeldBuffer
          /\ LetsGoByPut]_vars

\* The call returned after one read succeeded and another failed, a buffer
\* was handed out a second time, and every buffer is back at rest.
C25_Witness ==
    /\ GenReturned
    /\ \E i \in FileEntries : fate[i] = "read"
    /\ \E i \in FileEntries : fate[i] = "failed"
    /\ made >= 1
    /\ made < Cardinality({i \in FileEntries : fate[i] \in {"read", "failed"}})
    /\ bufferPool = Buffers

(***************************************************************************)
(* Properties of GenerateXML: one worker and one result per entry          *)
(***************************************************************************)
\* How many times entry i is waiting in the work queue.
Queued(i) == Cardinality({k \in DOMAIN workChan : workChan[k] = i})

Takers(i) == {w \in Workers : cur[w] = i}

\* How many results of entry i exist: in the results queue or already with
\* the collector as a record.
InFlight(i) ==
    Cardinality({k \in DOMAIN resultChan :
                    \/ resultChan[k].err = ReadError(files[i])
                    \/ /\ resultChan[k].err = Nil
                       /\ resultChan[k].file.Path = RelOfEntry(i)})

Recorded(i) ==
    Cardinality({k \in DOMAIN promptFiles : promptFiles[k].Path = RelOfEntry(i)})

WithFate(f) == {i \in FileEntries : fate[i] = f}

\* A step in which a worker takes an entry from the work queue: the entry
\* was queued once, nobody had it and nobody had handled it.
TakesFresh ==
    \A w \in Workers :
        (cur'[w] # 0 /\ cur'[w] # cur[w]) =>
            /\ Queued(cur'[w]) = 1
            /\ Takers(cur'[w]) = {}
            /\ fate[cur'[w]] = "none"
            /\ ~files[cur'[w]].IsDir

\* C27: every selected file entry is taken by exactly one worker and
\* yields at most one result; when the call returns, records, per-file
\* errors and skipped entries add up to the selected file entries, and no
\* path appears in two records.
C27_OneWorkerOneResult ==
    /\ [](\A i \in FileEntries :
            /\ Queued(i) + Cardinality(Takers(i)) <= 1
            /\ InFlight(i) + Recorded(i) <= 1
            /\ (fate[i] = "skipped") => (InFlight(i) + Recorded(i) = 0))
    /\ []((GenReturned /\ FileEntries # {}) =>
            /\ \A i \in FileEntries : fate[i] # "none"
            /\ Len(promptFiles) + Cardinality(WithFate("failed"))
                 + Cardinality(WithFate("skipped")) = Cardinality(FileEntries)
            /\ \A i \in WithFate("read") : Recorded(i) = 1
            /\ \A k, l \in DOMAIN promptFiles :
                  promptFiles[k].Path = promptFiles[l].Path => k = l)
    /\ [][TakesFresh]_vars

\* The call returned with a record, a per-file error and a skipped entry,
\* three file entries shared among two workers.
C27_Witness ==
    /\ GenReturned
    /\ NumWorkers < Cardinality(FileEntries)
    /\ WithFate("read") # {}
    /\ WithFate("failed") # {}
    /\ WithFate("skipped") # {}

(***************************************************************************)
(* Properties of GenerateXML: the outcome does not depend on the schedule  *)
(***************************************************************************)
\* The entries whose read is attempted, and the record of each one that
\* can be read, as the selection and the file system determine them.
Attempted == {i \in FileEntries : ~Skips(BaseDir, files[i])}

Readable == {i \in Attempted : files[i].kind # "gone"}

RecordOf(i) ==
    [Path |-> RelPathOf(BaseDir, files[i]),
     Type |-> FileTypeOf(files[i]),
     Content |-> DiskContent(files[i].Path)]

\* The document's records, as a bag, are the records of the readable
\* entries.
SameRecords(records) ==
    /\ Len(records) = Cardinality(Readable)
    /\ \A i \in Readable :
          Cardinality({k \in DOMAIN records : records[k] = RecordOf(i)}) = 1

\* C28: for a fixed selection and an unchanged file system the multiset of
\* file records of the returned document and whether the error is nil are
\* the same under every interleaving; only the order of the records may
\* differ.
C28_OutcomeIndependentOfSchedule ==
    (GenReturned /\ FileEntries # {}) =>
        /\ SameRecords(DocFiles)
        /\ (ret.err # Nil) <=> (\E i \in Attempted : files[i].kind = "gone")

\* The call returned two records in an order other than that of the
\* selection, together with an error.
C28_Witness ==
    /\ GenReturned
    /\ Cardinality(Readable) >= 2
    /\ Len(DocFiles) >= 2
    /\ ret.err # Nil
    /\ \E i, j \in Readable :
          /\ i < j
          /\ DocFiles[1] = RecordOf(j)
          /\ DocFiles[2] = RecordOf(i)

(***************************************************************************)
(* Properties of GenerateXML: termination                                  *)
(***************************************************************************)
\* The call has returned with the work queue closed, every worker exited,
\* the results queue closed and drained.
CleanReturn ==
    /\ GenReturned
    /\ workClosed
    /\ workChan = <<>>
    /\ AllWorkersExited
    /\ wg = 0
    /\ resultClosed
    /\ resultChan = <<>>
    /\ cpc = "done"

\* C23: for every selection with at least one file entry and every worker
\* count, under every fair interleaving the dispatcher closes the work
\* queue, every worker exits, the results queue is closed and the collector
\* returns; this includes more file entries than workers and every read
\* failing.
C23_Terminates == (FileEntries # {}) ~> CleanReturn

\* The call returned from a selection with more file entries than workers
\* in which every read that was attempted failed.
C23_Witness ==
    /\ CleanReturn
    /\ Cardinality(FileEntries) > NumWorkers
    /\ Cardinality(WithFate("failed")) >= 2
    /\ WithFate("read") = {}

(***************************************************************************)
(* Properties of lazy expansion                                            *)
(***************************************************************************)
ChildrenOf(d) == {heap[d].Children[k] : k \in DOMAIN heap[d].Children}

\* C26: after loadChildren of a directory D whose child collection was
\* empty, every child of D lies directly inside D (its parent path is D's
\* path) and no child has the path of D itself.
C26_ChildrenAreDirectEntries ==
    \A d \in loadedDirs :
        \A c \in ChildrenOf(d) :
            /\ Dir(heap[c].Path) = heap[d].Path
            /\ heap[c].Path # heap[d].Path

(***************************************************************************)
(* Errors on single entries during a scan                                  *)
(***************************************************************************)
\* The entries below the scan root that cannot be read.
UnreadableEntries == {p \in disk.noRead : Beneath(ScanDir, p)}

\* What the same scan lists when every entry can be read.
UnhinderedPaths ==
    LET r == ListFiles([disk EXCEPT !.noRead = {}], CurrentDir, filters)
    IN {r.result[i].Path : i \in DOMAIN r.result}

\* The entries an unreadable entry hides: itself and what lies beneath it.
Hidden(q) == \E p \in UnreadableEntries : q = p \/ Beneath(p, q)

\* C30: an entry below the scan root that cannot be read never aborts
\* ListFiles: the error is nil and every other entry that can be reached
\* and passes the filters is in the result.
C30_EntryErrorsDoNotAbort ==
    (/\ Scanned
     /\ ScanDir \in disk.dirs
     /\ ScanDir \notin disk.noRead
     /\ UnreadableEntries # {})
    => /\ listed.err = Nil
       /\ \A q \in UnhinderedPaths : ~Hidden(q) => q \in ListedPaths

(***************************************************************************)
(* Properties of generateAndCopy                                           *)
(***************************************************************************)
\* GenerateXML has returned in run r.
Generated(r) == runs[r].pc \notin {"noFiles", "generate"}

\* A step in which run r calls CopyToClipboard.
CopiesIn(r) == runs'[r].copies > runs[r].copies

\* C21: in every run of generateAndCopy CopyToClipboard is called at most
\* once, only after GenerateXML has returned, and never when GenerateXML
\* returned a non-nil error.
C21_CopyOnlyAfterSuccess ==
    /\ [](\A r \in DOMAIN runs :
            /\ runs[r].copies <= 1
            /\ runs[r].copies = 1 => (Generated(r) /\ runs[r].err = Nil))
    /\ [][/\ \A r \in DOMAIN runs :
                CopiesIn(r) => /\ Generated(r)
                               /\ runs[r].err = Nil
                               /\ runs[r].copies = 0
          /\ clipboard' # clipboard => \E r \in DOMAIN runs : CopiesIn(r)]_vars

\* One run ended without a copy because GenerateXML returned an error,
\* another copied its document.
C21_Witness ==
    /\ \E r \in DOMAIN runs :
          /\ runs[r].pc = "notified"
          /\ runs[r].err # Nil
          /\ runs[r].copies = 0
    /\ \E r \in DOMAIN runs :
          /\ runs[r].pc = "copied"
          /\ runs[r].copies = 1
          /\ clipboard = runs[r].xml

(***************************************************************************)
(* Properties of the selection                                             *)
(***************************************************************************)
\* C22: every entry of the list GetSelectedFiles returns, which
\* generateAndCopy hands to GenerateXML, is a file entry.
C22_SelectionHoldsFilesOnly ==
    \A i \in DOMAIN picked : ~heap[picked[i]].IsDir

\* Every goroutine the check boxes started has finished.
Quiet == \A k \in DOMAIN tasks : tasks[k].pc = "done"

\* No entry has been allocated since LoadDirectory: every entry of the
\* tree was loaded before the first change of a check box.
NothingLoadedSince ==
    Len(heap) = Len(ListFiles(disk, CurrentDir, filters).result)

\* C29: after the check box of a directory was changed and every handler
\* and goroutine this started has finished, every entry beneath that
\* directory that was loaded already, at any depth, has Selected equal to
\* the value of the check box.
C29_SelectionReachesAllDescendants ==
    (Loaded /\ clicks >= 1 /\ Quiet /\ NothingLoadedSince) =>
        \A f \in BoxFiles :
            heap[f].IsDir =>
                \A id \in Descendants({f}, Len(heap)) :
                    heap[id].Selected = (heap[f].Path \in checkedBoxes)

====
